---- MODULE Spec2Model ----
(***************************************************************************)
(* Guard-token protocol of the carplay-backend voice gateway: the health   *)
(* classifier, the token codec (signGuardToken / isValidGuardToken), the   *)
(* Guard endpoints that mint tokens and the Session endpoints that verify  *)
(* them before asking the Realtime collaborator for a session.             *)
(*                                                                         *)
(* Strings are sequences of Unicode code points (naturals): "exp" is       *)
(* <<101, 120, 112>>.  Byte strings are sequences of 0..255.               *)
(***************************************************************************)
EXTENDS Integers, Sequences, FiniteSets, TLC

VARIABLES now, env, wallet, h, cx, rx, rep, pair

vars == <<now, env, wallet, h, cx, rx, rep, pair>>

----------------------------------------------------------------------------
(* Strings                                                                 *)

RECURSIVE IndexFrom(_, _, _)
\* First index >= i at which character c occurs in s, 0 when there is none.
IndexFrom(s, c, i) ==
  IF i > Len(s) THEN 0
  ELSE IF s[i] = c THEN i
  ELSE IndexFrom(s, c, i + 1)

RECURSIVE Split(_, _)
\* String.prototype.split(sep) for a one-character separator: the pieces
\* between the occurrences of sep (always at least one piece).
Split(s, sep) ==
  LET i == IndexFrom(s, sep, 1)
  IN  IF i = 0 THEN <<s>>
      ELSE <<SubSeq(s, 1, i - 1)>> \o Split(SubSeq(s, i + 1, Len(s)), sep)

\* s.replace(/a/g, b) for single characters.
ReplaceAll(s, a, b) == [i \in 1..Len(s) |-> IF s[i] = a THEN b ELSE s[i]]

RECURSIVE StripTrailing(_, _)
\* s.replace(/c+$/g, '').
StripTrailing(s, c) ==
  IF Len(s) > 0 /\ s[Len(s)] = c THEN StripTrailing(SubSeq(s, 1, Len(s) - 1), c)
  ELSE s

\* c.repeat(n).
Repeat(c, n) == [i \in 1..n |-> c]

\* Whitespace as String.prototype.trim and the regular expression class \s see
\* it, restricted to the characters the model uses (tab, LF, CR, space).
IsSpace(c) == c \in {9, 10, 13, 32}

RECURSIVE TrimLeft(_)
TrimLeft(s) ==
  IF Len(s) > 0 /\ IsSpace(s[1]) THEN TrimLeft(Tail(s)) ELSE s

RECURSIVE TrimRight(_)
TrimRight(s) ==
  IF Len(s) > 0 /\ IsSpace(s[Len(s)]) THEN TrimRight(SubSeq(s, 1, Len(s) - 1)) ELSE s

\* String.prototype.trim.
Trim(s) == TrimRight(TrimLeft(s))

IsDigit(c) == c \in 48..57

RECURSIVE DigitsOf(_)
\* Decimal digits of a natural number, most significant first.
DigitsOf(n) ==
  IF n < 10 THEN <<48 + n>> ELSE DigitsOf(n \div 10) \o <<48 + (n % 10)>>

\* Number-to-string of an integer, as JSON.stringify and String() render it.
NumberToString(n) == IF n < 0 THEN <<45>> \o DigitsOf(0 - n) ELSE DigitsOf(n)

RECURSIVE DigitsValue(_)
\* Value of a non-empty string of decimal digits.
DigitsValue(s) ==
  IF Len(s) = 0 THEN 0
  ELSE 10 * DigitsValue(SubSeq(s, 1, Len(s) - 1)) + (s[Len(s)] - 48)

----------------------------------------------------------------------------
(* Base64 (Buffer.from(x).toString('base64'), Buffer.from(x, 'base64'))    *)

\* The standard alphabet: A-Z a-z 0-9 + /
B64Alphabet ==
  [i \in 1..64 |->
     IF i <= 26 THEN 64 + i
     ELSE IF i <= 52 THEN 96 + (i - 26)
     ELSE IF i <= 62 THEN 47 + (i - 52)
     ELSE IF i = 63 THEN 43 ELSE 47]

B64Char(v) == B64Alphabet[v + 1]

\* The 6-bit value of a character; node's decoder also reads '-' as 62 and
\* '_' as 63; -1 for any other character.
B64Value(c) ==
  IF c \in 65..90 THEN c - 65
  ELSE IF c \in 97..122 THEN c - 97 + 26
  ELSE IF c \in 48..57 THEN c - 48 + 52
  ELSE IF c \in {43, 45} THEN 62
  ELSE IF c \in {47, 95} THEN 63
  ELSE 0 - 1

RECURSIVE Base64Encode(_)
\* Standard base64 with '=' padding of a byte string.
Base64Encode(b) ==
  IF Len(b) = 0 THEN <<>>
  ELSE IF Len(b) = 1 THEN
    <<B64Char(b[1] \div 4), B64Char((b[1] % 4) * 16), 61, 61>>
  ELSE IF Len(b) = 2 THEN
    <<B64Char(b[1] \div 4),
      B64Char((b[1] % 4) * 16 + b[2] \div 16),
      B64Char((b[2] % 16) * 4), 61>>
  ELSE
    <<B64Char(b[1] \div 4),
      B64Char((b[1] % 4) * 16 + b[2] \div 16),
      B64Char((b[2] % 16) * 4 + b[3] \div 64),
      B64Char(b[3] % 64)>> \o Base64Encode(SubSeq(b, 4, Len(b)))

RECURSIVE B64Sextets(_)
\* The 6-bit values a base64 text carries: the decoder stops at the first '='
\* and skips every character outside the alphabet.
B64Sextets(s) ==
  IF Len(s) = 0 \/ s[1] = 61 THEN <<>>
  ELSE IF B64Value(s[1]) < 0 THEN B64Sextets(Tail(s))
  ELSE <<B64Value(s[1])>> \o B64Sextets(Tail(s))

RECURSIVE SextetsToBytes(_)
SextetsToBytes(v) ==
  IF Len(v) < 2 THEN <<>>
  ELSE IF Len(v) = 2 THEN <<v[1] * 4 + v[2] \div 16>>
  ELSE IF Len(v) = 3 THEN
    <<v[1] * 4 + v[2] \div 16, (v[2] % 16) * 16 + v[3] \div 4>>
  ELSE
    <<v[1] * 4 + v[2] \div 16,
      (v[2] % 16) * 16 + v[3] \div 4,
      (v[3] % 4) * 64 + v[4]>> \o SextetsToBytes(SubSeq(v, 5, Len(v)))

\* Buffer.from(s, 'base64').
Base64Decode(s) == SextetsToBytes(B64Sextets(s))

\* Buffer.from(text): the UTF-8 bytes of a text.  The texts that are encoded
\* (the JSON payload) are ASCII, one byte per character.
Utf8Bytes(s) == s

\* buffer.toString('utf8'): ASCII bytes are their characters, any other byte
\* is rendered as U+FFFD.
Utf8String(b) == [i \in 1..Len(b) |-> IF b[i] < 128 THEN b[i] ELSE 65533]

\* realtime-guard.ts base64UrlEncode.
base64UrlEncode(input) ==
  LET base64 == Base64Encode(Utf8Bytes(input))
  IN  StripTrailing(ReplaceAll(ReplaceAll(base64, 43, 45), 47, 95), 61)

\* session.ts base64UrlDecode.
base64UrlDecode(input) ==
  LET padded     == ReplaceAll(ReplaceAll(input, 45, 43), 95, 47)
      padLength  == (4 - (Len(padded) % 4)) % 4
      normalized == padded \o Repeat(61, padLength)
  IN  Utf8String(Base64Decode(normalized))

----------------------------------------------------------------------------
(* JavaScript values and JSON                                              *)

\* A JavaScript value as far as the payload of a token and the guard_token of
\* a request need it: undefined, null, a boolean, an integer, a string, and
\* an object or an array whatever it holds.
Undefined == [t |-> "undefined", b |-> FALSE, n |-> 0, s |-> <<>>]
Null      == [t |-> "null",      b |-> FALSE, n |-> 0, s |-> <<>>]
Bool(x)   == [t |-> "bool",      b |-> x,     n |-> 0, s |-> <<>>]
Num(x)    == [t |-> "num",       b |-> FALSE, n |-> x, s |-> <<>>]
Str(x)    == [t |-> "str",       b |-> FALSE, n |-> 0, s |-> x]
Obj       == [t |-> "object",    b |-> FALSE, n |-> 0, s |-> <<>>]
Arr       == [t |-> "array",     b |-> FALSE, n |-> 0, s |-> <<>>]

\* ToBoolean: what `!v` negates.
Truthy(v) ==
  CASE v.t = "bool" -> v.b
    [] v.t = "num"  -> v.n # 0
    [] v.t = "str"  -> Len(v.s) > 0
    [] v.t \in {"object", "array"} -> TRUE
    [] OTHER        -> FALSE

\* A string that ToNumber reads as an integer (after trimming): digits with an
\* optional sign; the empty string is 0.
IsIntegerString(s) ==
  LET u == Trim(s)
      d == IF Len(u) > 0 /\ u[1] \in {43, 45} THEN Tail(u) ELSE u
  IN  \/ Len(u) = 0
      \/ Len(d) > 0 /\ \A i \in 1..Len(d) : IsDigit(d[i])

StringToNumber(s) ==
  LET u == Trim(s)
  IN  IF Len(u) = 0 THEN 0
      ELSE IF u[1] = 45 THEN 0 - DigitsValue(Tail(u))
      ELSE IF u[1] = 43 THEN DigitsValue(Tail(u))
      ELSE DigitsValue(u)

\* payload.exp > now, the boundary second excluded.
GreaterNumber(v, k) ==
  CASE v.t = "num"  -> v.n > k
    [] v.t = "bool" -> (IF v.b THEN 1 ELSE 0) > k
    [] v.t = "null" -> 0 > k
    [] v.t = "str"  -> IsIntegerString(v.s) /\ StringToNumber(v.s) > k
    [] OTHER        -> FALSE

\* `v >= k` for a number k: v is converted with ToNumber, and a comparison
\* with NaN (undefined, a non-numeric string) is false.
GreaterOrEqualNumber(v, k) ==
  CASE v.t = "num"  -> v.n >= k
    [] v.t = "bool" -> (IF v.b THEN 1 ELSE 0) >= k
    [] v.t = "null" -> 0 >= k
    [] v.t = "str"  -> IsIntegerString(v.s) /\ StringToNumber(v.s) >= k
    [] OTHER        -> FALSE

Quote(s) == <<34>> \o s \o <<34>>

\* JSON.stringify of a scalar.
StringifyScalar(v) ==
  CASE v.t = "null" -> <<110, 117, 108, 108>>
    [] v.t = "bool" -> IF v.b THEN <<116, 114, 117, 101>>
                       ELSE <<102, 97, 108, 115, 101>>
    [] v.t = "num"  -> NumberToString(v.n)
    [] v.t = "str"  -> Quote(v.s)
    [] OTHER        -> <<>>

RECURSIVE StringifyMembers(_)
\* The members of an object literal, in insertion order, joined by commas; a
\* member whose value is undefined is left out, as JSON.stringify does.
StringifyMembers(ms) ==
  IF Len(ms) = 0 THEN <<>>
  ELSE LET m    == ms[1]
           rest == StringifyMembers(Tail(ms))
       IN  IF m.val.t = "undefined" THEN rest
           ELSE Quote(m.key) \o <<58>> \o StringifyScalar(m.val)
                \o (IF Len(rest) > 0 THEN <<44>> \o rest ELSE <<>>)

\* JSON.stringify of a flat object given as a sequence of [key, val] members.
StringifyObject(ms) == <<123>> \o StringifyMembers(ms) \o <<125>>

\* A JSON string literal without escapes: quotes around characters that are
\* neither '"' nor '\' nor control characters.
IsStringLiteral(x) ==
  /\ Len(x) >= 2
  /\ x[1] = 34
  /\ x[Len(x)] = 34
  /\ \A i \in 2..(Len(x) - 1) : x[i] \notin {34, 92} /\ x[i] >= 32

\* A JSON integer literal: an optional '-', then 0 or digits without a leading 0.
IsNumberLiteral(x) ==
  LET d == IF Len(x) > 0 /\ x[1] = 45 THEN Tail(x) ELSE x
  IN  /\ Len(d) > 0
      /\ \A i \in 1..Len(d) : IsDigit(d[i])
      /\ (Len(d) > 1 => d[1] # 48)

IsScalarLiteral(x) ==
  \/ x \in {<<110, 117, 108, 108>>, <<116, 114, 117, 101>>, <<102, 97, 108, 115, 101>>}
  \/ IsNumberLiteral(x)
  \/ IsStringLiteral(x)

ParseScalar(x) ==
  IF x = <<110, 117, 108, 108>> THEN Null
  ELSE IF x = <<116, 114, 117, 101>> THEN Bool(TRUE)
  ELSE IF x = <<102, 97, 108, 115, 101>> THEN Bool(FALSE)
  ELSE IF IsNumberLiteral(x) THEN
    (IF x[1] = 45 THEN Num(0 - DigitsValue(Tail(x))) ELSE Num(DigitsValue(x)))
  ELSE Str(SubSeq(x, 2, Len(x) - 1))

\* One `"key":value` member of a flat object.
IsMember(x) ==
  LET c == IndexFrom(x, 58, 1)
  IN  /\ c > 1
      /\ IsStringLiteral(SubSeq(x, 1, c - 1))
      /\ IsScalarLiteral(Trim(SubSeq(x, c + 1, Len(x))))

MemberKey(x) == SubSeq(x, 2, IndexFrom(x, 58, 1) - 2)

MemberValue(x) == ParseScalar(Trim(SubSeq(x, IndexFrom(x, 58, 1) + 1, Len(x))))

RECURSIVE LookupMember(_, _)
\* The value of the last member named key (a repeated key keeps its last
\* value), undefined when there is none.
LookupMember(ms, key) ==
  IF Len(ms) = 0 THEN Undefined
  ELSE IF MemberKey(Trim(ms[Len(ms)])) = key THEN MemberValue(Trim(ms[Len(ms)]))
  ELSE LookupMember(SubSeq(ms, 1, Len(ms) - 1), key)

\* JSON.parse, for the texts the model builds: a scalar, or a flat object with
\* scalar members (no nesting, no arrays, no escapes, no fractions; such texts
\* are never built).  ok = FALSE is the SyntaxError JSON.parse throws.  The
\* result carries the kind of the top-level value and, for an object, its exp
\* and allowed properties.
ParseJSON(text) ==
  LET x     == Trim(text)
      inner == Trim(SubSeq(x, 2, Len(x) - 1))
      ms    == IF Len(inner) = 0 THEN <<>> ELSE Split(inner, 44)
  IN  IF Len(x) >= 2 /\ x[1] = 123 /\ x[Len(x)] = 125 THEN
        IF \A i \in 1..Len(ms) : IsMember(Trim(ms[i])) THEN
          [ok |-> TRUE, top |-> "obj",
           exp |-> LookupMember(ms, <<101, 120, 112>>),
           allowed |-> LookupMember(ms, <<97, 108, 108, 111, 119, 101, 100>>)]
        ELSE [ok |-> FALSE, top |-> "error", exp |-> Undefined, allowed |-> Undefined]
      ELSE IF IsScalarLiteral(x) THEN
        [ok |-> TRUE, top |-> ParseScalar(x).t, exp |-> Undefined, allowed |-> Undefined]
      ELSE [ok |-> FALSE, top |-> "error", exp |-> Undefined, allowed |-> Undefined]

----------------------------------------------------------------------------
(* HMAC                                                                    *)

RECURSIVE PolyHash(_)
\* A polynomial checksum modulo the prime 65521; changing one character of s
\* always changes it.
PolyHash(s) ==
  IF Len(s) = 0 THEN 1
  ELSE (PolyHash(SubSeq(s, 1, Len(s) - 1)) * 257 + s[Len(s)]) % 65521

\* crypto.createHmac('sha256', secret).update(message).digest(): the digest
\* bytes.  SHA-256 itself is not computed: the digest is a two-byte keyed
\* checksum standing for it, which like the real one is a function of the key
\* and of every character of the message.
HmacSha256(secret, message) ==
  LET d == (PolyHash(secret) * 251 + PolyHash(message)) % 65521
  IN  <<d \div 256, d % 256>>

\* .digest('base64') without the three replacements.
HmacBase64(secret, message) == Base64Encode(HmacSha256(secret, message))

\* .digest('base64').replace(/\+/g, '-').replace(/\//g, '_').replace(/=+$/g, '')
HmacBase64Url(secret, message) ==
  StripTrailing(
    ReplaceAll(ReplaceAll(Base64Encode(HmacSha256(secret, message)), 43, 45), 47, 95),
    61)

----------------------------------------------------------------------------
(* Token codec                                                             *)

\* signGuardToken with the signature taken over the payload text, not over
\* its base64url form.
signGuardTokenOverPayloadText(secret, expiresAt) ==
  LET payload == StringifyObject(<<[key |-> <<101, 120, 112>>, val |-> Num(expiresAt)],
                                  [key |-> <<97, 108, 108, 111, 119, 101, 100>>, val |-> Bool(TRUE)]>>)
  IN  base64UrlEncode(payload) \o <<46>> \o HmacBase64Url(secret, payload)

\* realtime-guard.ts signGuardToken: the payload {exp, allowed: true} and its
\* HMAC, both base64url, joined by '.'.
signGuardToken(secret, expiresAt) ==
  LET payload    == StringifyObject(<<
                      [key |-> <<101, 120, 112>>, val |-> Num(expiresAt)],
                      [key |-> <<97, 108, 108, 111, 119, 101, 100>>, val |-> Bool(TRUE)]>>)
      payloadB64 == base64UrlEncode(payload)
      signature  == HmacBase64Url(secret, payloadB64)
  IN  payloadB64 \o <<46>> \o signature

\* The body of the try block of isValidGuardToken: parse the payload, check
\* allowed and exp, compare exp with the current second.  A SyntaxError of
\* JSON.parse and the TypeError of reading a property of null are caught and
\* give false.
PayloadAccepted(payloadB64, nowSec) ==
  LET payload == ParseJSON(base64UrlDecode(payloadB64))
  IN  IF ~payload.ok \/ payload.top = "null" THEN FALSE
      ELSE IF ~Truthy(payload.allowed) \/ ~Truthy(payload.exp) THEN FALSE
      ELSE GreaterOrEqualNumber(payload.exp, nowSec)

\* isValidGuardToken without the signature comparison.
isValidGuardTokenUnsigned(token, secret, nowSec) ==
  LET parts == Split(token, 46)
  IN  IF Len(parts) # 2 THEN FALSE
      ELSE PayloadAccepted(parts[1], nowSec)

\* isValidGuardToken comparing the decoded signature bytes, not the text.
isValidGuardTokenByBytes(token, secret, nowSec) ==
  LET parts == Split(token, 46)
  IN  IF Len(parts) # 2 THEN FALSE
      ELSE IF SextetsToBytes(B64Sextets(parts[2])) # HmacSha256(secret, parts[1]) THEN FALSE
      ELSE PayloadAccepted(parts[1], nowSec)

\* session.ts isValidGuardToken, with the second Date.now() gives as nowSec.
isValidGuardToken(token, secret, nowSec) ==
  LET parts == Split(token, 46)
  IN  IF Len(parts) # 2 THEN FALSE
      ELSE IF parts[2] # HmacBase64Url(secret, parts[1]) THEN FALSE
      ELSE PayloadAccepted(parts[1], nowSec)

KeyExp     == <<101, 120, 112>>                          \* "exp"
KeyAllowed == <<97, 108, 108, 111, 119, 101, 100>>       \* "allowed"

\* Payload texts other than the one signGuardToken writes.
PayloadKinds ==
  {"allowedFalse", "allowedOne", "allowedString", "allowedNull", "noAllowed",
   "noExp", "expZero", "notJson", "jsonNull", "swapped"}

PayloadText(kind, e) ==
  CASE kind = "allowedFalse"  -> StringifyObject(<<[key |-> KeyExp, val |-> Num(e)], [key |-> KeyAllowed, val |-> Bool(FALSE)]>>)
    [] kind = "allowedOne"    -> StringifyObject(<<[key |-> KeyExp, val |-> Num(e)], [key |-> KeyAllowed, val |-> Num(1)]>>)
    [] kind = "allowedString" -> StringifyObject(<<[key |-> KeyExp, val |-> Num(e)], [key |-> KeyAllowed, val |-> Str(<<110, 111>>)]>>)
    [] kind = "allowedNull"   -> StringifyObject(<<[key |-> KeyExp, val |-> Num(e)], [key |-> KeyAllowed, val |-> Null]>>)
    [] kind = "noAllowed"     -> StringifyObject(<<[key |-> KeyExp, val |-> Num(e)]>>)
    [] kind = "noExp"         -> StringifyObject(<<[key |-> KeyAllowed, val |-> Bool(TRUE)]>>)
    [] kind = "expZero"       -> StringifyObject(<<[key |-> KeyExp, val |-> Num(0)], [key |-> KeyAllowed, val |-> Bool(TRUE)]>>)
    [] kind = "notJson"       -> <<123>> \o KeyExp \o <<61>> \o NumberToString(e)
    [] kind = "jsonNull"      -> <<110, 117, 108, 108>>
    [] kind = "swapped"       -> StringifyObject(<<[key |-> KeyAllowed, val |-> Bool(TRUE)], [key |-> KeyExp, val |-> Num(e)]>>)

\* A token over any payload text, signed as signGuardToken signs.
SignedOver(secret, payloadText) ==
  LET payloadB64 == base64UrlEncode(payloadText)
  IN  payloadB64 \o <<46>> \o HmacBase64Url(secret, payloadB64)

----------------------------------------------------------------------------
(* Classifier                                                              *)

\* One alternative of a pattern: a literal, with a \b assertion before it (lb)
\* and after it (rb).  A pattern is the set of the alternatives its groups,
\* options and classes expand to: /\bdrug(s)?\b/ is {\bdrug\b, \bdrugs\b}, and
\* /\ballergy|allergic\b/ is {\ballergy, allergic\b}.
Alt(lb, lit, rb) == [lb |-> lb, lit |-> lit, rb |-> rb]

\* The narrow list (diet and nutrition terms): part_004, part_003, guard.ts 265-299 and 414-448.
blockedHealthPatternsNarrow == <<
  {Alt(TRUE, <<100, 105, 101, 116>>, TRUE)},  \* /\bdiet\b/
  {Alt(TRUE, <<99, 97, 108, 111, 114, 105, 101>>, TRUE), Alt(TRUE, <<99, 97, 108, 111, 114, 105, 101, 115>>, TRUE)},  \* /\bcalories?\b/
  {Alt(TRUE, <<99, 97, 108, 111, 114, 105, 99>>, TRUE)},  \* /\bcaloric\b/
  {Alt(TRUE, <<109, 97, 99, 114, 111>>, TRUE), Alt(TRUE, <<109, 97, 99, 114, 111, 115>>, TRUE)},  \* /\bmacro(s)?\b/
  {Alt(TRUE, <<110, 117, 116, 114, 105, 116, 105, 111, 110>>, TRUE)},  \* /\bnutrition\b/
  {Alt(TRUE, <<109, 101, 97, 108, 32, 112, 108, 97, 110>>, TRUE)},  \* /\bmeal plan\b/
  {Alt(TRUE, <<112, 114, 111, 116, 101, 105, 110>>, TRUE)},  \* /\bprotein\b/
  {Alt(TRUE, <<99, 97, 114, 98>>, TRUE), Alt(TRUE, <<99, 97, 114, 98, 115>>, TRUE)},  \* /\bcarb(s)?\b/
  {Alt(TRUE, <<102, 97, 116>>, TRUE)},  \* /\bfat\b/
  {Alt(TRUE, <<119, 101, 105, 103, 104, 116, 32, 108, 111, 115, 115>>, TRUE)},  \* /\bweight loss\b/
  {Alt(TRUE, <<108, 111, 115, 101, 32, 119, 101, 105, 103, 104, 116>>, TRUE)},  \* /\blose weight\b/
  {Alt(TRUE, <<103, 97, 105, 110, 32, 109, 117, 115, 99, 108, 101>>, TRUE)},  \* /\bgain muscle\b/
  {Alt(TRUE, <<98, 109, 105>>, TRUE)},  \* /\bbmi\b/
  {Alt(TRUE, <<98, 111, 100, 121, 32, 102, 97, 116>>, TRUE)},  \* /\bbody fat\b/
  {Alt(TRUE, <<107, 99, 97, 108>>, TRUE)},  \* /\bkcal\b/
  {Alt(TRUE, <<115, 117, 112, 112, 108, 101, 109, 101, 110, 116>>, TRUE), Alt(TRUE, <<115, 117, 112, 112, 108, 101, 109, 101, 110, 116, 115>>, TRUE)},  \* /\bsupplement(s)?\b/
  {Alt(TRUE, <<118, 105, 116, 97, 109, 105, 110>>, TRUE), Alt(TRUE, <<118, 105, 116, 97, 109, 105, 110, 115>>, TRUE)},  \* /\bvitamin(s)?\b/
  {Alt(FALSE, <<1076, 1080, 1077, 1090>>, FALSE)},  \* /диет/
  {Alt(FALSE, <<1082, 1072, 1083, 1086, 1088>>, FALSE)},  \* /калор/
  {Alt(FALSE, <<1084, 1072, 1082, 1088, 1086, 1089>>, FALSE)},  \* /макрос/
  {Alt(FALSE, <<1087, 1080, 1090, 1072, 1085>>, FALSE)},  \* /питан/
  {Alt(FALSE, <<1087, 1083, 1072, 1085, 32, 1087, 1080, 1090, 1072, 1085, 1080, 1103>>, FALSE)},  \* /план питания/
  {Alt(FALSE, <<1073, 1077, 1083, 1086, 1082>>, FALSE)},  \* /белок/
  {Alt(FALSE, <<1091, 1075, 1083, 1077, 1074, 1086, 1076>>, FALSE)},  \* /углевод/
  {Alt(FALSE, <<1078, 1080, 1088>>, FALSE)},  \* /жир/
  {Alt(FALSE, <<1087, 1086, 1093, 1091, 1076>>, FALSE)},  \* /похуд/
  {Alt(FALSE, <<1089, 1073, 1088, 1086, 1089, 1080, 1090, 1100, 32, 1074, 1077, 1089>>, FALSE)},  \* /сбросить вес/
  {Alt(FALSE, <<1085, 1072, 1073, 1088, 1072, 1090, 1100, 32, 1084, 1072, 1089, 1089>>, FALSE)},  \* /набрать масс/
  {Alt(FALSE, <<1080, 1084, 1090>>, FALSE)},  \* /имт/
  {Alt(FALSE, <<1080, 1085, 1076, 1077, 1082, 1089, 32, 1084, 1072, 1089, 1089, 1099, 32, 1090, 1077, 1083, 1072>>, FALSE)},  \* /индекс массы тела/
  {Alt(FALSE, <<1082, 1082, 1072, 1083>>, FALSE)},  \* /ккал/
  {Alt(FALSE, <<1076, 1086, 1073, 1072, 1074, 1082>>, FALSE)},  \* /добавк/
  {Alt(FALSE, <<1074, 1080, 1090, 1072, 1084, 1080, 1085>>, FALSE)}  \* /витамин/
>>

\* The broad list (adds medical terms): realtime-guard.ts, session.ts 220-348, guard.ts 17-145.
blockedHealthPatternsBroad == <<
  {Alt(TRUE, <<104, 101, 97, 108, 116, 104>>, TRUE)},  \* /\bhealth\b/
  {Alt(TRUE, <<109, 101, 100, 105, 99, 97, 108>>, TRUE)},  \* /\bmedical\b/
  {Alt(TRUE, <<109, 101, 100, 105, 99, 105, 110, 101>>, TRUE)},  \* /\bmedicine\b/
  {Alt(TRUE, <<109, 101, 100, 105, 99, 97, 116, 105, 111, 110>>, TRUE)},  \* /\bmedication\b/
  {Alt(TRUE, <<100, 114, 117, 103>>, TRUE), Alt(TRUE, <<100, 114, 117, 103, 115>>, TRUE)},  \* /\bdrug(s)?\b/
  {Alt(TRUE, <<112, 104, 97, 114, 109, 97, 99, 121>>, TRUE)},  \* /\bpharmacy\b/
  {Alt(TRUE, <<112, 104, 97, 114, 109, 97, 99, 121>>, TRUE), Alt(TRUE, <<112, 104, 97, 114, 109, 97, 99, 105, 115, 116>>, TRUE)},  \* /\bpharmac(y|ist)\b/
  {Alt(TRUE, <<112, 114, 101, 115, 99, 114, 105, 112, 116, 105, 111, 110>>, TRUE), Alt(TRUE, <<112, 114, 101, 115, 99, 114, 105, 112, 116, 105, 111, 110, 115>>, TRUE)},  \* /\bprescription(s)?\b/
  {Alt(TRUE, <<112, 114, 101, 115, 99, 114, 105, 98, 101>>, TRUE), Alt(TRUE, <<112, 114, 101, 115, 99, 114, 105, 98, 101, 100>>, TRUE), Alt(TRUE, <<112, 114, 101, 115, 99, 114, 105, 98, 101, 115>>, TRUE)},  \* /\bprescribe(d|s)?\b/
  {Alt(TRUE, <<100, 105, 97, 103, 110, 111, 115, 101>>, TRUE), Alt(TRUE, <<100, 105, 97, 103, 110, 111, 115, 105, 115>>, TRUE), Alt(TRUE, <<100, 105, 97, 103, 110, 111, 115, 101, 100>>, TRUE), Alt(TRUE, <<100, 105, 97, 103, 110, 111, 115, 105, 110, 103>>, TRUE)},  \* /\bdiagnos(e|is|ed|ing)\b/
  {Alt(TRUE, <<115, 121, 109, 112, 116, 111, 109>>, TRUE), Alt(TRUE, <<115, 121, 109, 112, 116, 111, 109, 115>>, TRUE)},  \* /\bsymptom(s)?\b/
  {Alt(TRUE, <<116, 114, 101, 97, 116, 109, 101, 110, 116>>, TRUE), Alt(TRUE, <<116, 114, 101, 97, 116, 109, 101, 110, 116, 115>>, TRUE)},  \* /\btreatment(s)?\b/
  {Alt(TRUE, <<116, 104, 101, 114, 97, 112, 121>>, TRUE)},  \* /\btherapy\b/
  {Alt(TRUE, <<115, 105, 100, 101, 32, 101, 102, 102, 101, 99, 116>>, TRUE), Alt(TRUE, <<115, 105, 100, 101, 32, 101, 102, 102, 101, 99, 116, 115>>, TRUE)},  \* /\bside effect(s)?\b/
  {Alt(TRUE, <<99, 111, 110, 116, 114, 97, 105, 110, 100, 105, 99, 97, 116, 105, 111, 110>>, TRUE), Alt(TRUE, <<99, 111, 110, 116, 114, 97, 105, 110, 100, 105, 99, 97, 116, 105, 111, 110, 115>>, TRUE)},  \* /\bcontraindication(s)?\b/
  {Alt(TRUE, <<97, 108, 108, 101, 114, 103, 121>>, FALSE), Alt(FALSE, <<97, 108, 108, 101, 114, 103, 105, 99>>, TRUE)},  \* /\ballergy|allergic\b/
  {Alt(TRUE, <<105, 110, 102, 101, 99, 116, 105, 111, 110>>, TRUE), Alt(TRUE, <<105, 110, 102, 101, 99, 116, 105, 111, 110, 115>>, TRUE)},  \* /\binfection(s)?\b/
  {Alt(TRUE, <<102, 101, 118, 101, 114>>, TRUE)},  \* /\bfever\b/
  {Alt(TRUE, <<104, 101, 97, 100, 97, 99, 104, 101>>, TRUE)},  \* /\bheadache\b/
  {Alt(TRUE, <<112, 97, 105, 110>>, TRUE)},  \* /\bpain\b/
  {Alt(TRUE, <<99, 104, 101, 115, 116, 32, 112, 97, 105, 110>>, TRUE)},  \* /\bchest pain\b/
  {Alt(TRUE, <<98, 108, 111, 111, 100, 32, 112, 114, 101, 115, 115, 117, 114, 101>>, TRUE)},  \* /\bblood pressure\b/
  {Alt(TRUE, <<104, 121, 112, 101, 114, 116, 101, 110, 115, 105, 111, 110>>, TRUE)},  \* /\bhypertension\b/
  {Alt(TRUE, <<104, 121, 112, 111, 116, 101, 110, 115, 105, 111, 110>>, TRUE)},  \* /\bhypotension\b/
  {Alt(TRUE, <<104, 101, 97, 114, 116, 32, 114, 97, 116, 101>>, TRUE)},  \* /\bheart rate\b/
  {Alt(TRUE, <<112, 117, 108, 115, 101>>, TRUE)},  \* /\bpulse\b/
  {Alt(TRUE, <<103, 108, 117, 99, 111, 115, 101>>, TRUE)},  \* /\bglucose\b/
  {Alt(TRUE, <<100, 105, 97, 98, 101, 116, 101, 115>>, TRUE), Alt(TRUE, <<100, 105, 97, 98, 101, 116, 105, 99>>, TRUE)},  \* /\bdiabet(es|ic)\b/
  {Alt(TRUE, <<105, 110, 115, 117, 108, 105, 110>>, TRUE)},  \* /\binsulin\b/
  {Alt(TRUE, <<99, 104, 111, 108, 101, 115, 116, 101, 114, 111, 108>>, TRUE)},  \* /\bcholesterol\b/
  {Alt(TRUE, <<99, 111, 110, 100, 105, 116, 105, 111, 110>>, TRUE), Alt(TRUE, <<99, 111, 110, 100, 105, 116, 105, 111, 110, 115>>, TRUE)},  \* /\bcondition(s)?\b/
  {Alt(TRUE, <<109, 101, 110, 116, 97, 108, 32, 104, 101, 97, 108, 116, 104>>, TRUE)},  \* /\bmental health\b/
  {Alt(TRUE, <<100, 101, 112, 114, 101, 115, 115, 105, 111, 110>>, TRUE)},  \* /\bdepression\b/
  {Alt(TRUE, <<97, 110, 120, 105, 101, 116, 121>>, TRUE)},  \* /\banxiety\b/
  {Alt(TRUE, <<116, 104, 101, 114, 97, 112, 105, 115, 116>>, TRUE)},  \* /\btherapist\b/
  {Alt(TRUE, <<99, 111, 117, 110, 115, 101, 108, 105, 110, 103>>, TRUE)},  \* /\bcounseling\b/
  {Alt(TRUE, <<100, 111, 99, 116, 111, 114>>, TRUE)},  \* /\bdoctor\b/
  {Alt(TRUE, <<112, 104, 121, 115, 105, 99, 105, 97, 110>>, TRUE)},  \* /\bphysician\b/
  {Alt(TRUE, <<99, 108, 105, 110, 105, 99>>, TRUE)},  \* /\bclinic\b/
  {Alt(TRUE, <<104, 111, 115, 112, 105, 116, 97, 108>>, TRUE)},  \* /\bhospital\b/
  {Alt(TRUE, <<97, 109, 98, 117, 108, 97, 110, 99, 101>>, TRUE)},  \* /\bambulance\b/
  {Alt(TRUE, <<101, 114>>, TRUE)},  \* /\ber\b/
  {Alt(TRUE, <<101, 109, 101, 114, 103, 101, 110, 99, 121>>, TRUE)},  \* /\bemergency\b/
  {Alt(TRUE, <<100, 105, 101, 116>>, TRUE)},  \* /\bdiet\b/
  {Alt(TRUE, <<99, 97, 108, 111, 114, 105, 101>>, TRUE), Alt(TRUE, <<99, 97, 108, 111, 114, 105, 101, 115>>, TRUE)},  \* /\bcalories?\b/
  {Alt(TRUE, <<99, 97, 108, 111, 114, 105, 99>>, TRUE)},  \* /\bcaloric\b/
  {Alt(TRUE, <<109, 97, 99, 114, 111>>, TRUE), Alt(TRUE, <<109, 97, 99, 114, 111, 115>>, TRUE)},  \* /\bmacro(s)?\b/
  {Alt(TRUE, <<110, 117, 116, 114, 105, 116, 105, 111, 110>>, TRUE)},  \* /\bnutrition\b/
  {Alt(TRUE, <<109, 101, 97, 108>>, TRUE), Alt(TRUE, <<109, 101, 97, 108, 115>>, TRUE)},  \* /\bmeal(s)?\b/
  {Alt(TRUE, <<109, 101, 97, 108, 32, 112, 108, 97, 110>>, TRUE)},  \* /\bmeal plan\b/
  {Alt(TRUE, <<109, 101, 97, 108, 32, 112, 108, 97, 110, 110, 105, 110, 103>>, TRUE)},  \* /\bmeal planning\b/
  {Alt(TRUE, <<112, 114, 111, 116, 101, 105, 110>>, TRUE)},  \* /\bprotein\b/
  {Alt(TRUE, <<99, 97, 114, 98>>, TRUE), Alt(TRUE, <<99, 97, 114, 98, 115>>, TRUE)},  \* /\bcarb(s)?\b/
  {Alt(TRUE, <<102, 97, 116>>, TRUE)},  \* /\bfat\b/
  {Alt(TRUE, <<119, 101, 105, 103, 104, 116, 32, 108, 111, 115, 115>>, TRUE)},  \* /\bweight loss\b/
  {Alt(TRUE, <<108, 111, 115, 101, 32, 119, 101, 105, 103, 104, 116>>, TRUE)},  \* /\blose weight\b/
  {Alt(TRUE, <<103, 97, 105, 110, 32, 109, 117, 115, 99, 108, 101>>, TRUE)},  \* /\bgain muscle\b/
  {Alt(TRUE, <<98, 109, 105>>, TRUE)},  \* /\bbmi\b/
  {Alt(TRUE, <<98, 111, 100, 121, 32, 102, 97, 116>>, TRUE)},  \* /\bbody fat\b/
  {Alt(TRUE, <<107, 99, 97, 108>>, TRUE)},  \* /\bkcal\b/
  {Alt(TRUE, <<107, 105, 108, 111, 99, 97, 108, 111, 114, 105, 101>>, TRUE), Alt(TRUE, <<107, 105, 108, 111, 99, 97, 108, 111, 114, 105, 101, 115>>, TRUE)},  \* /\bkilocalorie(s)?\b/
  {Alt(TRUE, <<109, 101, 116, 97, 98, 111, 108, 105, 115, 109>>, TRUE)},  \* /\bmetabolism\b/
  {Alt(TRUE, <<109, 101, 116, 97, 98, 111, 108, 105, 99>>, TRUE)},  \* /\bmetabolic\b/
  {Alt(TRUE, <<98, 117, 108, 107, 105, 110, 103>>, TRUE)},  \* /\bbulking\b/
  {Alt(TRUE, <<99, 117, 116, 116, 105, 110, 103>>, TRUE)},  \* /\bcutting\b/
  {Alt(TRUE, <<105, 110, 116, 101, 114, 109, 105, 116, 116, 101, 110, 116, 32, 102, 97, 115, 116, 105, 110, 103>>, TRUE)},  \* /\bintermittent fasting\b/
  {Alt(TRUE, <<102, 97, 115, 116, 105, 110, 103>>, TRUE)},  \* /\bfasting\b/
  {Alt(TRUE, <<115, 117, 112, 112, 108, 101, 109, 101, 110, 116>>, TRUE), Alt(TRUE, <<115, 117, 112, 112, 108, 101, 109, 101, 110, 116, 115>>, TRUE)},  \* /\bsupplement(s)?\b/
  {Alt(TRUE, <<112, 114, 111, 116, 101, 105, 110, 32, 112, 111, 119, 100, 101, 114>>, TRUE)},  \* /\bprotein powder\b/
  {Alt(TRUE, <<99, 114, 101, 97, 116, 105, 110, 101>>, TRUE)},  \* /\bcreatine\b/
  {Alt(TRUE, <<112, 114, 101, 119, 111, 114, 107, 111, 117, 116>>, TRUE), Alt(TRUE, <<112, 114, 101, 45, 119, 111, 114, 107, 111, 117, 116>>, TRUE), Alt(TRUE, <<112, 114, 101, 9, 119, 111, 114, 107, 111, 117, 116>>, TRUE), Alt(TRUE, <<112, 114, 101, 10, 119, 111, 114, 107, 111, 117, 116>>, TRUE), Alt(TRUE, <<112, 114, 101, 13, 119, 111, 114, 107, 111, 117, 116>>, TRUE), Alt(TRUE, <<112, 114, 101, 32, 119, 111, 114, 107, 111, 117, 116>>, TRUE)},  \* /\bpre[-\s]?workout\b/
  {Alt(TRUE, <<112, 111, 115, 116, 119, 111, 114, 107, 111, 117, 116>>, TRUE), Alt(TRUE, <<112, 111, 115, 116, 45, 119, 111, 114, 107, 111, 117, 116>>, TRUE), Alt(TRUE, <<112, 111, 115, 116, 9, 119, 111, 114, 107, 111, 117, 116>>, TRUE), Alt(TRUE, <<112, 111, 115, 116, 10, 119, 111, 114, 107, 111, 117, 116>>, TRUE), Alt(TRUE, <<112, 111, 115, 116, 13, 119, 111, 114, 107, 111, 117, 116>>, TRUE), Alt(TRUE, <<112, 111, 115, 116, 32, 119, 111, 114, 107, 111, 117, 116>>, TRUE)},  \* /\bpost[-\s]?workout\b/
  {Alt(TRUE, <<118, 105, 116, 97, 109, 105, 110>>, TRUE), Alt(TRUE, <<118, 105, 116, 97, 109, 105, 110, 115>>, TRUE)},  \* /\bvitamin(s)?\b/
  {Alt(TRUE, <<109, 105, 110, 101, 114, 97, 108>>, TRUE), Alt(TRUE, <<109, 105, 110, 101, 114, 97, 108, 115>>, TRUE)},  \* /\bmineral(s)?\b/
  {Alt(TRUE, <<111, 109, 101, 103, 97, 51>>, TRUE), Alt(TRUE, <<111, 109, 101, 103, 97, 45, 51>>, TRUE), Alt(TRUE, <<111, 109, 101, 103, 97, 9, 51>>, TRUE), Alt(TRUE, <<111, 109, 101, 103, 97, 10, 51>>, TRUE), Alt(TRUE, <<111, 109, 101, 103, 97, 13, 51>>, TRUE), Alt(TRUE, <<111, 109, 101, 103, 97, 32, 51>>, TRUE)},  \* /\bomega[-\s]?3\b/
  {Alt(TRUE, <<112, 114, 111, 98, 105, 111, 116, 105, 99>>, TRUE), Alt(TRUE, <<112, 114, 111, 98, 105, 111, 116, 105, 99, 115>>, TRUE)},  \* /\bprobiotic(s)?\b/
  {Alt(TRUE, <<100, 101, 102, 105, 99, 105, 101, 110, 99, 121>>, TRUE)},  \* /\bdeficiency\b/
  {Alt(TRUE, <<100, 101, 102, 105, 99, 105, 101, 110, 116>>, TRUE)},  \* /\bdeficient\b/
  {Alt(FALSE, <<1076, 1080, 1077, 1090>>, FALSE)},  \* /диет/
  {Alt(FALSE, <<1076, 1080, 1077, 1090, 1072>>, FALSE)},  \* /диета/
  {Alt(FALSE, <<1082, 1072, 1083, 1086, 1088>>, FALSE)},  \* /калор/
  {Alt(FALSE, <<1082, 1072, 1083, 1086, 1088, 1080>>, FALSE)},  \* /калори/
  {Alt(FALSE, <<1084, 1072, 1082, 1088, 1086, 1089>>, FALSE)},  \* /макрос/
  {Alt(FALSE, <<1087, 1080, 1090, 1072, 1085>>, FALSE)},  \* /питан/
  {Alt(FALSE, <<1087, 1083, 1072, 1085, 32, 1087, 1080, 1090, 1072, 1085, 1080, 1103>>, FALSE)},  \* /план питания/
  {Alt(FALSE, <<1073, 1077, 1083, 1086, 1082>>, FALSE)},  \* /белок/
  {Alt(FALSE, <<1091, 1075, 1083, 1077, 1074, 1086, 1076>>, FALSE)},  \* /углевод/
  {Alt(FALSE, <<1078, 1080, 1088>>, FALSE)},  \* /жир/
  {Alt(FALSE, <<1087, 1086, 1093, 1091, 1076>>, FALSE)},  \* /похуд/
  {Alt(FALSE, <<1087, 1086, 1093, 1091, 1076, 1077, 1090, 1100>>, FALSE)},  \* /похудеть/
  {Alt(FALSE, <<1089, 1085, 1080, 1078, 1077, 1085, 1080, 1077, 32, 1074, 1077, 1089, 1072>>, FALSE), Alt(FALSE, <<1089, 1085, 1080, 1078, 1077, 1085, 1080, 1103, 32, 1074, 1077, 1089, 1072>>, FALSE)},  \* /снижен(ие|ия) веса/
  {Alt(FALSE, <<1089, 1073, 1088, 1086, 1089, 1080, 1090, 1100, 32, 1074, 1077, 1089>>, FALSE)},  \* /сбросить вес/
  {Alt(FALSE, <<1085, 1072, 1073, 1088, 1072, 1090, 1100, 32, 1084, 1072, 1089, 1089>>, FALSE)},  \* /набрать масс/
  {Alt(FALSE, <<1085, 1072, 1073, 1086, 1088, 32, 1084, 1072, 1089, 1089>>, FALSE)},  \* /набор масс/
  {Alt(FALSE, <<1080, 1084, 1090>>, FALSE)},  \* /имт/
  {Alt(FALSE, <<1080, 1085, 1076, 1077, 1082, 1089, 32, 1084, 1072, 1089, 1089, 1099, 32, 1090, 1077, 1083, 1072>>, FALSE)},  \* /индекс массы тела/
  {Alt(FALSE, <<1082, 1082, 1072, 1083>>, FALSE)},  \* /ккал/
  {Alt(FALSE, <<1082, 1080, 1083, 1086, 1082, 1072, 1083>>, FALSE)},  \* /килокал/
  {Alt(FALSE, <<1082, 1072, 1083, 1086, 1088, 1080, 1103>>, FALSE), Alt(FALSE, <<1082, 1072, 1083, 1086, 1088, 1080, 1080>>, FALSE)},  \* /калори(я|и)/
  {Alt(FALSE, <<1084, 1077, 1090, 1072, 1073, 1086, 1083>>, FALSE)},  \* /метабол/
  {Alt(FALSE, <<1076, 1086, 1073, 1072, 1074, 1082>>, FALSE)},  \* /добавк/
  {Alt(FALSE, <<1074, 1080, 1090, 1072, 1084, 1080, 1085>>, FALSE)},  \* /витамин/
  {Alt(FALSE, <<1084, 1080, 1085, 1077, 1088, 1072, 1083>>, FALSE)},  \* /минерал/
  {Alt(FALSE, <<1083, 1077, 1082, 1072, 1088, 1089, 1090, 1074>>, FALSE)},  \* /лекарств/
  {Alt(FALSE, <<1084, 1077, 1076, 1080, 1094, 1080, 1085>>, FALSE)},  \* /медицин/
  {Alt(FALSE, <<1084, 1077, 1076, 1080, 1082, 1072, 1084, 1077, 1085, 1090>>, FALSE)},  \* /медикамент/
  {Alt(FALSE, <<1089, 1080, 1084, 1087, 1090, 1086, 1084>>, FALSE)},  \* /симптом/
  {Alt(FALSE, <<1076, 1080, 1072, 1075, 1085, 1086, 1079>>, FALSE)},  \* /диагноз/
  {Alt(FALSE, <<1083, 1077, 1095, 1077, 1085, 1080, 1077>>, FALSE)},  \* /лечение/
  {Alt(FALSE, <<1090, 1077, 1088, 1072, 1087, 1080>>, FALSE)},  \* /терапи/
  {Alt(FALSE, <<1087, 1086, 1073, 1086, 1095, 1085>>, FALSE)},  \* /побочн/
  {Alt(FALSE, <<1087, 1088, 1086, 1090, 1080, 1074, 1086, 1087, 1086, 1082, 1072, 1079>>, FALSE)},  \* /противопоказ/
  {Alt(FALSE, <<1076, 1072, 1074, 1083, 1077, 1085, 1080, 1077>>, FALSE)},  \* /давление/
  {Alt(FALSE, <<1090, 1077, 1084, 1087, 1077, 1088, 1072, 1090, 1091, 1088>>, FALSE)},  \* /температур/
  {Alt(FALSE, <<1078, 1072, 1088>>, FALSE)},  \* /жар/
  {Alt(FALSE, <<1073, 1086, 1083, 1100>>, FALSE)},  \* /боль/
  {Alt(FALSE, <<1075, 1088, 1091, 1076, 1085>>, FALSE)},  \* /грудн/
  {Alt(FALSE, <<1089, 1077, 1088, 1076, 1094>>, FALSE)},  \* /сердц/
  {Alt(FALSE, <<1087, 1091, 1083, 1100, 1089>>, FALSE)},  \* /пульс/
  {Alt(FALSE, <<1080, 1085, 1089, 1091, 1083, 1080, 1085>>, FALSE)},  \* /инсулин/
  {Alt(FALSE, <<1076, 1080, 1072, 1073, 1077, 1090>>, FALSE)},  \* /диабет/
  {Alt(FALSE, <<1093, 1086, 1083, 1077, 1089, 1090, 1077, 1088, 1080, 1085>>, FALSE)},  \* /холестерин/
  {Alt(FALSE, <<1074, 1088, 1072, 1095>>, FALSE)},  \* /врач/
  {Alt(FALSE, <<1082, 1083, 1080, 1085, 1080, 1082>>, FALSE)},  \* /клиник/
  {Alt(FALSE, <<1073, 1086, 1083, 1100, 1085, 1080, 1094>>, FALSE)},  \* /больниц/
  {Alt(FALSE, <<1089, 1082, 1086, 1088, 1072, 1103>>, FALSE)},  \* /скорая/
  {Alt(FALSE, <<1101, 1082, 1089, 1090, 1088, 1077, 1085, 1085>>, FALSE)}  \* /экстренн/
>>

\* The Voice-Chat list (adds symptom, fitness and wellness terms): part_000.
blockedHealthPatternsVoiceChat == <<
  {Alt(TRUE, <<104, 101, 97, 108, 116, 104>>, TRUE)},  \* /\bhealth\b/
  {Alt(TRUE, <<109, 101, 100, 105, 99, 97, 108>>, TRUE)},  \* /\bmedical\b/
  {Alt(TRUE, <<109, 101, 100, 105, 99, 105, 110, 101>>, TRUE)},  \* /\bmedicine\b/
  {Alt(TRUE, <<109, 101, 100, 105, 99, 97, 116, 105, 111, 110>>, TRUE)},  \* /\bmedication\b/
  {Alt(TRUE, <<100, 114, 117, 103>>, TRUE), Alt(TRUE, <<100, 114, 117, 103, 115>>, TRUE)},  \* /\bdrug(s)?\b/
  {Alt(TRUE, <<112, 104, 97, 114, 109, 97, 99, 121>>, TRUE)},  \* /\bpharmacy\b/
  {Alt(TRUE, <<112, 104, 97, 114, 109, 97, 99, 121>>, TRUE), Alt(TRUE, <<112, 104, 97, 114, 109, 97, 99, 105, 115, 116>>, TRUE)},  \* /\bpharmac(y|ist)\b/
  {Alt(TRUE, <<112, 114, 101, 115, 99, 114, 105, 112, 116, 105, 111, 110>>, TRUE), Alt(TRUE, <<112, 114, 101, 115, 99, 114, 105, 112, 116, 105, 111, 110, 115>>, TRUE)},  \* /\bprescription(s)?\b/
  {Alt(TRUE, <<112, 114, 101, 115, 99, 114, 105, 98, 101>>, TRUE), Alt(TRUE, <<112, 114, 101, 115, 99, 114, 105, 98, 101, 100>>, TRUE), Alt(TRUE, <<112, 114, 101, 115, 99, 114, 105, 98, 101, 115>>, TRUE)},  \* /\bprescribe(d|s)?\b/
  {Alt(TRUE, <<100, 105, 97, 103, 110, 111, 115, 101>>, TRUE), Alt(TRUE, <<100, 105, 97, 103, 110, 111, 115, 105, 115>>, TRUE), Alt(TRUE, <<100, 105, 97, 103, 110, 111, 115, 101, 100>>, TRUE), Alt(TRUE, <<100, 105, 97, 103, 110, 111, 115, 105, 110, 103>>, TRUE)},  \* /\bdiagnos(e|is|ed|ing)\b/
  {Alt(TRUE, <<115, 121, 109, 112, 116, 111, 109>>, TRUE), Alt(TRUE, <<115, 121, 109, 112, 116, 111, 109, 115>>, TRUE)},  \* /\bsymptom(s)?\b/
  {Alt(TRUE, <<116, 114, 101, 97, 116, 109, 101, 110, 116>>, TRUE), Alt(TRUE, <<116, 114, 101, 97, 116, 109, 101, 110, 116, 115>>, TRUE)},  \* /\btreatment(s)?\b/
  {Alt(TRUE, <<116, 104, 101, 114, 97, 112, 121>>, TRUE)},  \* /\btherapy\b/
  {Alt(TRUE, <<115, 105, 100, 101, 32, 101, 102, 102, 101, 99, 116>>, TRUE), Alt(TRUE, <<115, 105, 100, 101, 32, 101, 102, 102, 101, 99, 116, 115>>, TRUE)},  \* /\bside effect(s)?\b/
  {Alt(TRUE, <<99, 111, 110, 116, 114, 97, 105, 110, 100, 105, 99, 97, 116, 105, 111, 110>>, TRUE), Alt(TRUE, <<99, 111, 110, 116, 114, 97, 105, 110, 100, 105, 99, 97, 116, 105, 111, 110, 115>>, TRUE)},  \* /\bcontraindication(s)?\b/
  {Alt(TRUE, <<97, 108, 108, 101, 114, 103, 121>>, FALSE), Alt(FALSE, <<97, 108, 108, 101, 114, 103, 105, 99>>, TRUE)},  \* /\ballergy|allergic\b/
  {Alt(TRUE, <<105, 110, 102, 101, 99, 116, 105, 111, 110>>, TRUE), Alt(TRUE, <<105, 110, 102, 101, 99, 116, 105, 111, 110, 115>>, TRUE)},  \* /\binfection(s)?\b/
  {Alt(TRUE, <<102, 101, 118, 101, 114>>, TRUE)},  \* /\bfever\b/
  {Alt(TRUE, <<100, 105, 122, 122, 105, 110, 101, 115, 115>>, TRUE)},  \* /\bdizziness\b/
  {Alt(TRUE, <<110, 97, 117, 115, 101, 97>>, TRUE)},  \* /\bnausea\b/
  {Alt(TRUE, <<102, 97, 116, 105, 103, 117, 101>>, TRUE)},  \* /\bfatigue\b/
  {Alt(TRUE, <<115, 116, 114, 101, 115, 115>>, TRUE)},  \* /\bstress\b/
  {Alt(TRUE, <<104, 101, 97, 100, 97, 99, 104, 101>>, TRUE)},  \* /\bheadache\b/
  {Alt(TRUE, <<112, 97, 105, 110>>, TRUE)},  \* /\bpain\b/
  {Alt(TRUE, <<98, 97, 99, 107, 32, 112, 97, 105, 110>>, TRUE)},  \* /\bback pain\b/
  {Alt(TRUE, <<99, 104, 101, 115, 116, 32, 112, 97, 105, 110>>, TRUE)},  \* /\bchest pain\b/
  {Alt(TRUE, <<98, 108, 111, 111, 100, 32, 112, 114, 101, 115, 115, 117, 114, 101>>, TRUE)},  \* /\bblood pressure\b/
  {Alt(TRUE, <<104, 121, 112, 101, 114, 116, 101, 110, 115, 105, 111, 110>>, TRUE)},  \* /\bhypertension\b/
  {Alt(TRUE, <<104, 121, 112, 111, 116, 101, 110, 115, 105, 111, 110>>, TRUE)},  \* /\bhypotension\b/
  {Alt(TRUE, <<104, 101, 97, 114, 116, 32, 114, 97, 116, 101>>, TRUE)},  \* /\bheart rate\b/
  {Alt(TRUE, <<112, 117, 108, 115, 101>>, TRUE)},  \* /\bpulse\b/
  {Alt(TRUE, <<103, 108, 117, 99, 111, 115, 101>>, TRUE)},  \* /\bglucose\b/
  {Alt(TRUE, <<100, 105, 97, 98, 101, 116, 101, 115>>, TRUE), Alt(TRUE, <<100, 105, 97, 98, 101, 116, 105, 99>>, TRUE)},  \* /\bdiabet(es|ic)\b/
  {Alt(TRUE, <<105, 110, 115, 117, 108, 105, 110>>, TRUE)},  \* /\binsulin\b/
  {Alt(TRUE, <<99, 104, 111, 108, 101, 115, 116, 101, 114, 111, 108>>, TRUE)},  \* /\bcholesterol\b/
  {Alt(TRUE, <<99, 111, 110, 100, 105, 116, 105, 111, 110>>, TRUE), Alt(TRUE, <<99, 111, 110, 100, 105, 116, 105, 111, 110, 115>>, TRUE)},  \* /\bcondition(s)?\b/
  {Alt(TRUE, <<109, 101, 110, 116, 97, 108, 32, 104, 101, 97, 108, 116, 104>>, TRUE)},  \* /\bmental health\b/
  {Alt(TRUE, <<100, 101, 112, 114, 101, 115, 115, 105, 111, 110>>, TRUE)},  \* /\bdepression\b/
  {Alt(TRUE, <<97, 110, 120, 105, 101, 116, 121>>, TRUE)},  \* /\banxiety\b/
  {Alt(TRUE, <<116, 104, 101, 114, 97, 112, 105, 115, 116>>, TRUE)},  \* /\btherapist\b/
  {Alt(TRUE, <<99, 111, 117, 110, 115, 101, 108, 105, 110, 103>>, TRUE)},  \* /\bcounseling\b/
  {Alt(TRUE, <<100, 111, 99, 116, 111, 114>>, TRUE)},  \* /\bdoctor\b/
  {Alt(TRUE, <<112, 104, 121, 115, 105, 99, 105, 97, 110>>, TRUE)},  \* /\bphysician\b/
  {Alt(TRUE, <<99, 108, 105, 110, 105, 99>>, TRUE)},  \* /\bclinic\b/
  {Alt(TRUE, <<104, 111, 115, 112, 105, 116, 97, 108>>, TRUE)},  \* /\bhospital\b/
  {Alt(TRUE, <<97, 109, 98, 117, 108, 97, 110, 99, 101>>, TRUE)},  \* /\bambulance\b/
  {Alt(TRUE, <<101, 114>>, TRUE)},  \* /\ber\b/
  {Alt(TRUE, <<101, 109, 101, 114, 103, 101, 110, 99, 121>>, TRUE)},  \* /\bemergency\b/
  {Alt(TRUE, <<100, 105, 101, 116>>, TRUE)},  \* /\bdiet\b/
  {Alt(TRUE, <<99, 97, 108, 111, 114, 105, 101>>, TRUE), Alt(TRUE, <<99, 97, 108, 111, 114, 105, 101, 115>>, TRUE)},  \* /\bcalories?\b/
  {Alt(TRUE, <<99, 97, 108, 111, 114, 105, 99>>, TRUE)},  \* /\bcaloric\b/
  {Alt(TRUE, <<109, 97, 99, 114, 111>>, TRUE), Alt(TRUE, <<109, 97, 99, 114, 111, 115>>, TRUE)},  \* /\bmacro(s)?\b/
  {Alt(TRUE, <<110, 117, 116, 114, 105, 116, 105, 111, 110>>, TRUE)},  \* /\bnutrition\b/
  {Alt(TRUE, <<109, 101, 97, 108>>, TRUE), Alt(TRUE, <<109, 101, 97, 108, 115>>, TRUE)},  \* /\bmeal(s)?\b/
  {Alt(TRUE, <<109, 101, 97, 108, 32, 112, 108, 97, 110>>, TRUE)},  \* /\bmeal plan\b/
  {Alt(TRUE, <<109, 101, 97, 108, 32, 112, 108, 97, 110, 110, 105, 110, 103>>, TRUE)},  \* /\bmeal planning\b/
  {Alt(TRUE, <<112, 114, 111, 116, 101, 105, 110>>, TRUE)},  \* /\bprotein\b/
  {Alt(TRUE, <<99, 97, 114, 98>>, TRUE), Alt(TRUE, <<99, 97, 114, 98, 115>>, TRUE)},  \* /\bcarb(s)?\b/
  {Alt(TRUE, <<102, 97, 116>>, TRUE)},  \* /\bfat\b/
  {Alt(TRUE, <<119, 101, 105, 103, 104, 116, 32, 108, 111, 115, 115>>, TRUE)},  \* /\bweight loss\b/
  {Alt(TRUE, <<108, 111, 115, 101, 32, 119, 101, 105, 103, 104, 116>>, TRUE)},  \* /\blose weight\b/
  {Alt(TRUE, <<103, 97, 105, 110, 32, 109, 117, 115, 99, 108, 101>>, TRUE)},  \* /\bgain muscle\b/
  {Alt(TRUE, <<98, 109, 105>>, TRUE)},  \* /\bbmi\b/
  {Alt(TRUE, <<98, 111, 100, 121, 32, 102, 97, 116>>, TRUE)},  \* /\bbody fat\b/
  {Alt(TRUE, <<107, 99, 97, 108>>, TRUE)},  \* /\bkcal\b/
  {Alt(TRUE, <<107, 105, 108, 111, 99, 97, 108, 111, 114, 105, 101>>, TRUE), Alt(TRUE, <<107, 105, 108, 111, 99, 97, 108, 111, 114, 105, 101, 115>>, TRUE)},  \* /\bkilocalorie(s)?\b/
  {Alt(TRUE, <<109, 101, 116, 97, 98, 111, 108, 105, 115, 109>>, TRUE)},  \* /\bmetabolism\b/
  {Alt(TRUE, <<109, 101, 116, 97, 98, 111, 108, 105, 99>>, TRUE)},  \* /\bmetabolic\b/
  {Alt(TRUE, <<98, 117, 108, 107, 105, 110, 103>>, TRUE)},  \* /\bbulking\b/
  {Alt(TRUE, <<99, 117, 116, 116, 105, 110, 103>>, TRUE)},  \* /\bcutting\b/
  {Alt(TRUE, <<105, 110, 116, 101, 114, 109, 105, 116, 116, 101, 110, 116, 32, 102, 97, 115, 116, 105, 110, 103>>, TRUE)},  \* /\bintermittent fasting\b/
  {Alt(TRUE, <<102, 97, 115, 116, 105, 110, 103>>, TRUE)},  \* /\bfasting\b/
  {Alt(TRUE, <<115, 117, 112, 112, 108, 101, 109, 101, 110, 116>>, TRUE), Alt(TRUE, <<115, 117, 112, 112, 108, 101, 109, 101, 110, 116, 115>>, TRUE)},  \* /\bsupplement(s)?\b/
  {Alt(TRUE, <<112, 114, 111, 116, 101, 105, 110, 32, 112, 111, 119, 100, 101, 114>>, TRUE)},  \* /\bprotein powder\b/
  {Alt(TRUE, <<99, 114, 101, 97, 116, 105, 110, 101>>, TRUE)},  \* /\bcreatine\b/
  {Alt(TRUE, <<112, 114, 101, 119, 111, 114, 107, 111, 117, 116>>, TRUE), Alt(TRUE, <<112, 114, 101, 45, 119, 111, 114, 107, 111, 117, 116>>, TRUE), Alt(TRUE, <<112, 114, 101, 9, 119, 111, 114, 107, 111, 117, 116>>, TRUE), Alt(TRUE, <<112, 114, 101, 10, 119, 111, 114, 107, 111, 117, 116>>, TRUE), Alt(TRUE, <<112, 114, 101, 13, 119, 111, 114, 107, 111, 117, 116>>, TRUE), Alt(TRUE, <<112, 114, 101, 32, 119, 111, 114, 107, 111, 117, 116>>, TRUE)},  \* /\bpre[-\s]?workout\b/
  {Alt(TRUE, <<112, 111, 115, 116, 119, 111, 114, 107, 111, 117, 116>>, TRUE), Alt(TRUE, <<112, 111, 115, 116, 45, 119, 111, 114, 107, 111, 117, 116>>, TRUE), Alt(TRUE, <<112, 111, 115, 116, 9, 119, 111, 114, 107, 111, 117, 116>>, TRUE), Alt(TRUE, <<112, 111, 115, 116, 10, 119, 111, 114, 107, 111, 117, 116>>, TRUE), Alt(TRUE, <<112, 111, 115, 116, 13, 119, 111, 114, 107, 111, 117, 116>>, TRUE), Alt(TRUE, <<112, 111, 115, 116, 32, 119, 111, 114, 107, 111, 117, 116>>, TRUE)},  \* /\bpost[-\s]?workout\b/
  {Alt(TRUE, <<118, 105, 116, 97, 109, 105, 110>>, TRUE), Alt(TRUE, <<118, 105, 116, 97, 109, 105, 110, 115>>, TRUE)},  \* /\bvitamin(s)?\b/
  {Alt(TRUE, <<109, 105, 110, 101, 114, 97, 108>>, TRUE), Alt(TRUE, <<109, 105, 110, 101, 114, 97, 108, 115>>, TRUE)},  \* /\bmineral(s)?\b/
  {Alt(TRUE, <<111, 109, 101, 103, 97, 51>>, TRUE), Alt(TRUE, <<111, 109, 101, 103, 97, 45, 51>>, TRUE), Alt(TRUE, <<111, 109, 101, 103, 97, 9, 51>>, TRUE), Alt(TRUE, <<111, 109, 101, 103, 97, 10, 51>>, TRUE), Alt(TRUE, <<111, 109, 101, 103, 97, 13, 51>>, TRUE), Alt(TRUE, <<111, 109, 101, 103, 97, 32, 51>>, TRUE)},  \* /\bomega[-\s]?3\b/
  {Alt(TRUE, <<112, 114, 111, 98, 105, 111, 116, 105, 99>>, TRUE), Alt(TRUE, <<112, 114, 111, 98, 105, 111, 116, 105, 99, 115>>, TRUE)},  \* /\bprobiotic(s)?\b/
  {Alt(TRUE, <<100, 101, 102, 105, 99, 105, 101, 110, 99, 121>>, TRUE)},  \* /\bdeficiency\b/
  {Alt(TRUE, <<100, 101, 102, 105, 99, 105, 101, 110, 116>>, TRUE)},  \* /\bdeficient\b/
  {Alt(TRUE, <<101, 120, 101, 114, 99, 105, 115, 101>>, TRUE)},  \* /\bexercise\b/
  {Alt(TRUE, <<119, 111, 114, 107, 111, 117, 116>>, TRUE)},  \* /\bworkout\b/
  {Alt(TRUE, <<115, 116, 114, 101, 116, 99, 104>>, TRUE), Alt(TRUE, <<115, 116, 114, 101, 116, 99, 104, 105, 110, 103>>, TRUE)},  \* /\bstretch(ing)?\b/
  {Alt(TRUE, <<112, 111, 115, 116, 117, 114, 101>>, TRUE)},  \* /\bposture\b/
  {Alt(TRUE, <<114, 101, 99, 111, 118, 101, 114, 121>>, TRUE)},  \* /\brecovery\b/
  {Alt(TRUE, <<115, 108, 101, 101, 112>>, TRUE)},  \* /\bsleep\b/
  {Alt(TRUE, <<104, 121, 100, 114, 97, 116, 105, 111, 110>>, TRUE)},  \* /\bhydration\b/
  {Alt(TRUE, <<119, 101, 108, 108, 110, 101, 115, 115>>, TRUE)},  \* /\bwellness\b/
  {Alt(FALSE, <<1076, 1080, 1077, 1090>>, FALSE)},  \* /диет/
  {Alt(FALSE, <<1076, 1080, 1077, 1090, 1072>>, FALSE)},  \* /диета/
  {Alt(FALSE, <<1082, 1072, 1083, 1086, 1088>>, FALSE)},  \* /калор/
  {Alt(FALSE, <<1082, 1072, 1083, 1086, 1088, 1080>>, FALSE)},  \* /калори/
  {Alt(FALSE, <<1084, 1072, 1082, 1088, 1086, 1089>>, FALSE)},  \* /макрос/
  {Alt(FALSE, <<1087, 1080, 1090, 1072, 1085>>, FALSE)},  \* /питан/
  {Alt(FALSE, <<1087, 1083, 1072, 1085, 32, 1087, 1080, 1090, 1072, 1085, 1080, 1103>>, FALSE)},  \* /план питания/
  {Alt(FALSE, <<1073, 1077, 1083, 1086, 1082>>, FALSE)},  \* /белок/
  {Alt(FALSE, <<1091, 1075, 1083, 1077, 1074, 1086, 1076>>, FALSE)},  \* /углевод/
  {Alt(FALSE, <<1078, 1080, 1088>>, FALSE)},  \* /жир/
  {Alt(FALSE, <<1087, 1086, 1093, 1091, 1076>>, FALSE)},  \* /похуд/
  {Alt(FALSE, <<1087, 1086, 1093, 1091, 1076, 1077, 1090, 1100>>, FALSE)},  \* /похудеть/
  {Alt(FALSE, <<1089, 1085, 1080, 1078, 1077, 1085, 1080, 1077, 32, 1074, 1077, 1089, 1072>>, FALSE), Alt(FALSE, <<1089, 1085, 1080, 1078, 1077, 1085, 1080, 1103, 32, 1074, 1077, 1089, 1072>>, FALSE)},  \* /снижен(ие|ия) веса/
  {Alt(FALSE, <<1089, 1073, 1088, 1086, 1089, 1080, 1090, 1100, 32, 1074, 1077, 1089>>, FALSE)},  \* /сбросить вес/
  {Alt(FALSE, <<1085, 1072, 1073, 1088, 1072, 1090, 1100, 32, 1084, 1072, 1089, 1089>>, FALSE)},  \* /набрать масс/
  {Alt(FALSE, <<1085, 1072, 1073, 1086, 1088, 32, 1084, 1072, 1089, 1089>>, FALSE)},  \* /набор масс/
  {Alt(FALSE, <<1080, 1084, 1090>>, FALSE)},  \* /имт/
  {Alt(FALSE, <<1080, 1085, 1076, 1077, 1082, 1089, 32, 1084, 1072, 1089, 1089, 1099, 32, 1090, 1077, 1083, 1072>>, FALSE)},  \* /индекс массы тела/
  {Alt(FALSE, <<1082, 1082, 1072, 1083>>, FALSE)},  \* /ккал/
  {Alt(FALSE, <<1082, 1080, 1083, 1086, 1082, 1072, 1083>>, FALSE)},  \* /килокал/
  {Alt(FALSE, <<1082, 1072, 1083, 1086, 1088, 1080, 1103>>, FALSE), Alt(FALSE, <<1082, 1072, 1083, 1086, 1088, 1080, 1080>>, FALSE)},  \* /калори(я|и)/
  {Alt(FALSE, <<1084, 1077, 1090, 1072, 1073, 1086, 1083>>, FALSE)},  \* /метабол/
  {Alt(FALSE, <<1076, 1086, 1073, 1072, 1074, 1082>>, FALSE)},  \* /добавк/
  {Alt(FALSE, <<1074, 1080, 1090, 1072, 1084, 1080, 1085>>, FALSE)},  \* /витамин/
  {Alt(FALSE, <<1084, 1080, 1085, 1077, 1088, 1072, 1083>>, FALSE)},  \* /минерал/
  {Alt(FALSE, <<1083, 1077, 1082, 1072, 1088, 1089, 1090, 1074>>, FALSE)},  \* /лекарств/
  {Alt(FALSE, <<1084, 1077, 1076, 1080, 1094, 1080, 1085>>, FALSE)},  \* /медицин/
  {Alt(FALSE, <<1084, 1077, 1076, 1080, 1082, 1072, 1084, 1077, 1085, 1090>>, FALSE)},  \* /медикамент/
  {Alt(FALSE, <<1089, 1080, 1084, 1087, 1090, 1086, 1084>>, FALSE)},  \* /симптом/
  {Alt(FALSE, <<1076, 1080, 1072, 1075, 1085, 1086, 1079>>, FALSE)},  \* /диагноз/
  {Alt(FALSE, <<1083, 1077, 1095, 1077, 1085, 1080, 1077>>, FALSE)},  \* /лечение/
  {Alt(FALSE, <<1090, 1077, 1088, 1072, 1087, 1080>>, FALSE)},  \* /терапи/
  {Alt(FALSE, <<1087, 1086, 1073, 1086, 1095, 1085>>, FALSE)},  \* /побочн/
  {Alt(FALSE, <<1087, 1088, 1086, 1090, 1080, 1074, 1086, 1087, 1086, 1082, 1072, 1079>>, FALSE)},  \* /противопоказ/
  {Alt(FALSE, <<1076, 1072, 1074, 1083, 1077, 1085, 1080, 1077>>, FALSE)},  \* /давление/
  {Alt(FALSE, <<1090, 1077, 1084, 1087, 1077, 1088, 1072, 1090, 1091, 1088>>, FALSE)},  \* /температур/
  {Alt(FALSE, <<1075, 1086, 1083, 1086, 1074, 1086, 1082, 1088, 1091, 1078>>, FALSE)},  \* /головокруж/
  {Alt(FALSE, <<1090, 1086, 1096, 1085, 1086, 1090>>, FALSE)},  \* /тошнот/
  {Alt(FALSE, <<1091, 1089, 1090, 1072, 1083, 1086, 1089, 1090>>, FALSE)},  \* /усталост/
  {Alt(FALSE, <<1089, 1090, 1088, 1077, 1089, 1089>>, FALSE)},  \* /стресс/
  {Alt(FALSE, <<1078, 1072, 1088>>, FALSE)},  \* /жар/
  {Alt(FALSE, <<1073, 1086, 1083, 1100>>, FALSE)},  \* /боль/
  {Alt(FALSE, <<1089, 1087, 1080, 1085>>, FALSE)},  \* /спин/
  {Alt(FALSE, <<1075, 1088, 1091, 1076, 1085>>, FALSE)},  \* /грудн/
  {Alt(FALSE, <<1089, 1077, 1088, 1076, 1094>>, FALSE)},  \* /сердц/
  {Alt(FALSE, <<1087, 1091, 1083, 1100, 1089>>, FALSE)},  \* /пульс/
  {Alt(FALSE, <<1080, 1085, 1089, 1091, 1083, 1080, 1085>>, FALSE)},  \* /инсулин/
  {Alt(FALSE, <<1076, 1080, 1072, 1073, 1077, 1090>>, FALSE)},  \* /диабет/
  {Alt(FALSE, <<1093, 1086, 1083, 1077, 1089, 1090, 1077, 1088, 1080, 1085>>, FALSE)},  \* /холестерин/
  {Alt(FALSE, <<1074, 1088, 1072, 1095>>, FALSE)},  \* /врач/
  {Alt(FALSE, <<1082, 1083, 1080, 1085, 1080, 1082>>, FALSE)},  \* /клиник/
  {Alt(FALSE, <<1073, 1086, 1083, 1100, 1085, 1080, 1094>>, FALSE)},  \* /больниц/
  {Alt(FALSE, <<1089, 1082, 1086, 1088, 1072, 1103>>, FALSE)},  \* /скорая/
  {Alt(FALSE, <<1101, 1082, 1089, 1090, 1088, 1077, 1085, 1085>>, FALSE)},  \* /экстренн/
  {Alt(FALSE, <<1089, 1086, 1085>>, FALSE)},  \* /сон/
  {Alt(FALSE, <<1075, 1080, 1076, 1088, 1072, 1090, 1072, 1094>>, FALSE)},  \* /гидратац/
  {Alt(FALSE, <<1074, 1086, 1076, 1072>>, FALSE)},  \* /вода/
  {Alt(FALSE, <<1091, 1087, 1088, 1072, 1078, 1085, 1077, 1085>>, FALSE)},  \* /упражнен/
  {Alt(FALSE, <<1088, 1072, 1089, 1090, 1103, 1078>>, FALSE)},  \* /растяж/
  {Alt(FALSE, <<1087, 1086, 1079, 1072>>, FALSE)},  \* /поза/
  {Alt(FALSE, <<1074, 1086, 1089, 1089, 1090, 1072, 1085, 1086, 1074, 1083, 1077, 1085>>, FALSE)},  \* /восстановлен/
  {Alt(FALSE, <<1092, 1080, 1090, 1085, 1077, 1089>>, FALSE)}  \* /фитнес/
>>


\* \w of a regular expression without the u flag: ASCII letters, digits, '_'.
IsWordChar(c) == c \in 48..57 \/ c \in 65..90 \/ c = 95 \/ c \in 97..122

\* \b before position i of s (1..Len(s)+1): exactly one of the characters on
\* its two sides is a word character.
AtWordBoundary(s, i) ==
  LET before == i > 1 /\ IsWordChar(s[i - 1])
      after  == i <= Len(s) /\ IsWordChar(s[i])
  IN  before # after

AltMatchesAt(a, s, i) ==
  /\ i + Len(a.lit) - 1 <= Len(s)
  /\ \A k \in 1..Len(a.lit) : s[i + k - 1] = a.lit[k]
  /\ a.lb => AtWordBoundary(s, i)
  /\ a.rb => AtWordBoundary(s, i + Len(a.lit))

\* pattern.test(s) for a pattern without flags.
PatternTest(pattern, s) ==
  \E a \in pattern : \E i \in 1..(Len(s) + 1) : AltMatchesAt(a, s, i)

\* String.prototype.toLowerCase on Latin and Cyrillic letters.
ToLowerCase(s) ==
  [i \in 1..Len(s) |->
     IF s[i] \in 65..90 \/ s[i] \in 1040..1071 THEN s[i] + 32
     ELSE IF s[i] = 1025 THEN 1105
     ELSE s[i]]

\* isBlockedHealthRequest without the toLowerCase.
isBlockedHealthRequestCaseSensitive(patterns, text) ==
  \E k \in 1..Len(patterns) : PatternTest(patterns[k], text)

\* isBlockedHealthRequest over the pattern list of the file it is defined in.
isBlockedHealthRequest(patterns, text) ==
  LET normalized == ToLowerCase(text)
  IN  \E k \in 1..Len(patterns) : PatternTest(patterns[k], normalized)

\* Every pattern with the g flag.
PatternIsGlobalSet == TRUE

\* The `global` property of the RegExp objects of the pattern lists: no
\* literal of a list has a flag.
PatternIsGlobal == FALSE

\* RegExp.prototype.test on the RegExp object of a pattern, whose lastIndex
\* property is read and written only when the object is global: the search
\* starts at lastIndex, which becomes the end of the match, or 0 when there is
\* none.  The result is whether it matched and the lastIndex left behind.
RegExpTest(pattern, lastIndex, s) ==
  LET start == IF PatternIsGlobal THEN lastIndex ELSE 0
      hits  == {i \in (start + 1)..(Len(s) + 1) : \E a \in pattern : AltMatchesAt(a, s, i)}
      first == CHOOSE i \in hits : \A j \in hits : i <= j
      lens  == {Len(a.lit) : a \in {b \in pattern : AltMatchesAt(b, s, first)}}
      len   == CHOOSE n \in lens : \A m \in lens : n >= m
  IN  IF hits = {}
      THEN [matched |-> FALSE, lastIndex |-> IF PatternIsGlobal THEN 0 ELSE lastIndex]
      ELSE [matched |-> TRUE,
            lastIndex |-> IF PatternIsGlobal THEN first - 1 + len ELSE lastIndex]

\* patterns.some((pattern) => pattern.test(s)) over the RegExp objects of the
\* list as they are: the objects are tested in order up to the first that
\* matches.  The result is whether one matched, and the lastIndex of every
\* object afterwards.
SomeTest(patterns, lastIndexes, s) ==
  LET tested   == [k \in 1..Len(patterns) |-> RegExpTest(patterns[k], lastIndexes[k], s)]
      matching == {k \in 1..Len(patterns) : tested[k].matched}
      last     == IF matching = {} THEN Len(patterns)
                  ELSE CHOOSE k \in matching : \A j \in matching : k <= j
  IN  [blocked   |-> matching # {},
       lastIndex |-> [k \in 1..Len(patterns) |->
                        IF k <= last THEN tested[k].lastIndex ELSE lastIndexes[k]]]

----------------------------------------------------------------------------
(* Configuration, clock and inputs                                         *)

guardTokenTtlSeconds == 120

\* The first second the model observes, and how many seconds around the
\* expiry of a token minted at that second it observes.
Epoch == 1000
MaxSkew == 1

\* The seconds at which handlers run: Date.now() is read at these.
Instants ==
  {Epoch} \cup {Epoch + guardTokenTtlSeconds + d : d \in (0 - MaxSkew)..MaxSkew}

\* process.env values; the empty string is an unset variable (both are falsy).
ApiKey  == <<115, 107>>                       \* "sk"
SecretA == <<115, 51, 99, 114, 101, 116>>     \* "s3cret"
SecretB == <<119, 114, 111, 110, 103>>        \* "wrong"

Envs == [apiKey : {<<>>, ApiKey}, guardSecret : {<<>>, SecretA}]

\* An optional string property of a request or response body.
Absent  == [some |-> FALSE, v |-> <<>>]
Some(s) == [some |-> TRUE, v |-> s]

\* a ?? b
Coalesce(a, b) == IF a.some THEN a ELSE b

\* ToBoolean of an optional string: present and not empty.
Present(o) == o.some /\ Len(o.v) > 0

TextSpace    == <<32, 32>>                                        \* "  "
TextGas      == <<70, 105, 110, 100, 32, 103, 97, 115>>           \* "Find gas"
TextDiet     == <<77, 121, 32, 68, 105, 101, 116>>                \* "My Diet"
TextHeadache == <<104, 101, 97, 100, 97, 99, 104, 101>>           \* "headache"

\* The properties of a request body.  guard_token is the property when it is a
\* string; guard_token_other is its value when the request carries it as
\* something else (undefined when it is a string or left out).
EmptyBody ==
  [audio_base64 |-> Absent, transcript |-> Absent, text |-> Absent,
   user_text |-> Absent, prompt |-> Absent, query |-> Absent,
   guard_token |-> Absent, guard_token_other |-> Undefined, sdp |-> Absent]

\* A request: its method, whether its body is a JSON object ("json"), missing
\* ("empty") or not JSON ("invalid"), and the properties of the JSON object.
Req(method, bodyKind, body) == [method |-> method, bodyKind |-> bodyKind, body |-> body]

NoReq == Req("POST", "empty", EmptyBody)

OtherRequests ==
  {Req("GET", "empty", EmptyBody), Req("OPTIONS", "empty", EmptyBody),
   Req("POST", "empty", EmptyBody), Req("POST", "invalid", EmptyBody)}

\* Guard requests: a transcript, a text, both, audio only, and audio beside a
\* text.
GuardRequests ==
  OtherRequests
    \cup {Req("POST", "json", [EmptyBody EXCEPT !.transcript = t]) :
            t \in {Absent, Some(TextSpace), Some(TextGas), Some(TextDiet), Some(TextHeadache)}}
    \cup {Req("POST", "json", [EmptyBody EXCEPT !.transcript = t, !.text = Some(TextDiet)]) :
            t \in {Absent, Some(TextGas)}}
    \cup {Req("POST", "json", [EmptyBody EXCEPT !.audio_base64 = Some(<<65, 65>>), !.transcript = t]) :
            t \in {Absent, Some(TextDiet)}}

\* A string that is no token: no '.' in it.
TokenGarbage == <<97, 98, 99>>

\* Tokens that fail for one cause each: signed under another secret, signed
\* over allowed = false, signed over a payload that is not JSON.
BadTokens ==
  {signGuardToken(SecretB, now + guardTokenTtlSeconds),
   SignedOver(env.guardSecret, PayloadText("allowedFalse", now + guardTokenTtlSeconds)),
   SignedOver(env.guardSecret, PayloadText("notJson", now + guardTokenTtlSeconds))}

\* The guard_token values a client sends: none, garbage, the token it holds.
ClientTokens ==
  {Absent, Some(TokenGarbage)} \cup (IF wallet.held THEN {Some(wallet.token)} ELSE {})

\* The text properties of Session requests: none, an allowed or a blocked
\* user_text, a blocked transcript alone, behind an empty user_text, and
\* behind an allowed one.
SessionTexts ==
  {[EmptyBody EXCEPT !.user_text = u] :
     u \in {Absent, Some(TextGas), Some(TextDiet), Some(TextHeadache)}}
    \cup {[EmptyBody EXCEPT !.user_text = u, !.transcript = Some(TextDiet)] :
            u \in {Absent, Some(<<>>), Some(TextGas)}}

\* Every text with no token, garbage and the held token; the tokens that fail
\* for one cause each with no text, an allowed text and a blocked one.
SessionRequests ==
  OtherRequests
    \cup {Req("POST", "json", [b EXCEPT !.guard_token = g]) :
            b \in SessionTexts, g \in ClientTokens}
    \cup {Req("POST", "json", [EmptyBody EXCEPT !.user_text = u, !.guard_token = Some(t)]) :
            u \in {Absent, Some(TextGas), Some(TextDiet)}, t \in BadTokens}

\* The status of a collaborator's non-2xx reply.
UpstreamStatus == 429

\* What the collaborator's call comes to: a 2xx reply ("ok", with the text of a
\* transcription when it has one), a reply with another status ("status"), a
\* transport failure ("network"), or the abort of the handler's timer ("abort");
\* text is the `text` of a transcription, or the body of a non-2xx reply.
Reply(kind, text) ==
  [kind |-> kind, text |-> text,
   status |-> IF kind = "ok" THEN 200 ELSE IF kind = "status" THEN UpstreamStatus ELSE 0]

\* The body of a collaborator's non-2xx reply.
TextQuota == <<113, 117, 111, 116, 97>>                           \* "quota"

TranscriptionReplies ==
  {Reply("ok", t) : t \in {Absent, Some(TextSpace), Some(TextGas), Some(TextDiet)}}
    \cup {Reply("status", Some(TextQuota)), Reply("network", Absent), Reply("abort", Absent)}

RealtimeReplies ==
  {Reply("ok", Absent), Reply("status", Some(TextQuota)), Reply("network", Absent),
   Reply("abort", Absent)}

\* The offer a client sends, and the answer the Realtime API gives.
TextOffer  == <<118, 61, 48>>                                     \* "v=0"
TextAnswer == <<118, 61, 49>>                                     \* "v=1"

\* Offer requests: without and with an sdp.
OfferRequests ==
  OtherRequests
    \cup {Req("POST", "json", [EmptyBody EXCEPT !.sdp = x]) : x \in {Absent, Some(TextOffer)}}

OfferReplies ==
  {Reply("ok", Some(TextAnswer)), Reply("status", Some(TextQuota)), Reply("network", Absent),
   Reply("abort", Absent)}

\* Voice-Chat requests: without and with audio.
VoiceChatRequests ==
  OtherRequests
    \cup {Req("POST", "json", [EmptyBody EXCEPT !.audio_base64 = x]) :
            x \in {Absent, Some(<<65, 65>>)}}

TextLeft == <<32, 76, 101, 102, 116>>                             \* " Left"

\* Chat completions: a content, none; speech: the audio bytes.
ChatReplies ==
  {Reply("ok", Some(TextLeft)), Reply("ok", Absent), Reply("status", Some(TextQuota)),
   Reply("network", Absent)}

SpeechReplies ==
  {Reply("ok", Absent), Reply("status", Some(TextQuota)), Reply("network", Absent)}

----------------------------------------------------------------------------
(* Responses and handler state                                             *)

NoResp ==
  [status |-> 0, kind |-> "none", error |-> "", blocked |-> FALSE, allowed |-> FALSE,
   transcript |-> Absent, guard_token |-> Absent, expires_at |-> 0,
   client_secret |-> FALSE, body |-> <<>>, response |-> Absent, audio |-> FALSE,
   sdp |-> Absent]

\* A JSON body the handler builds; error is its `error` property ("" for none).
JsonResp(status, error) == [NoResp EXCEPT !.status = status, !.kind = "json", !.error = error]

\* The collaborator's failure reported in the gateway's own words.
UpstreamRespWrapped(reply) == [NoResp EXCEPT !.status = 502, !.kind = "json", !.error = "Upstream request failed"]

\* The collaborator's status passed on without its body.
UpstreamRespWithoutBody(reply) == [NoResp EXCEPT !.status = reply.status, !.kind = "upstream"]

\* The collaborator's status and body, with the credential of the call.
UpstreamRespWithCredential(reply) ==
  [NoResp EXCEPT !.status = reply.status, !.kind = "upstream",
                 !.body = reply.text.v \o env.apiKey]

\* The collaborator's status and body, passed on.
UpstreamResp(reply) ==
  [NoResp EXCEPT !.status = reply.status, !.kind = "upstream", !.body = reply.text.v]

\* The preflight reply: status 200, empty body.
EmptyResp == [NoResp EXCEPT !.status = 200, !.kind = "empty"]

MethodNotAllowed == JsonResp(405, "Method Not Allowed")
ApiKeyMissing    == JsonResp(500, "OPENAI_API_KEY is missing")
SecretMissing    == JsonResp(500, "GUARD_TOKEN_SECRET is missing")
ContentBlocked   == [JsonResp(403, "Health-related requests are not supported.") EXCEPT !.blocked = TRUE]
GuardFailed      == [JsonResp(403, "Guard verification failed.") EXCEPT !.blocked = TRUE]
SessionCreated   == [JsonResp(200, "") EXCEPT !.client_secret = TRUE]

\* The catch block of the handlers that arm a timer: 504 when the error
\* message includes 'aborted', 502 otherwise.
UpstreamFailed(kind) ==
  JsonResp(IF kind = "abort" THEN 504 ELSE 502, "Upstream request failed")

\* The handler of one request: which handler (v), where it is (phase: "idle",
\* "await" at its fetch, "done" with a response, "threw" when an exception left
\* it), its request, the second of its last Date.now() (at), the outbound
\* calls it made and their Authorization header (auth), its abort timer, what
\* its fetch came to, its response, and whether its request presents a token
\* that has opened a session before.
Idle ==
  [v |-> "none", phase |-> "idle", req |-> NoReq, at |-> 0, calls |-> <<>>,
   timer |-> "unarmed", reply |-> Reply("none", Absent), resp |-> NoResp,
   replay |-> FALSE, auth |-> <<>>]

Started(v, r) == [Idle EXCEPT !.v = v, !.phase = "done", !.req = r, !.at = now]

Done(st, resp) == [st EXCEPT !.phase = "done", !.resp = resp]

Threw(st) == [st EXCEPT !.phase = "threw"]

\* Authorization: `Bearer ${apiKey}`
Bearer(apiKey) == <<66, 101, 97, 114, 101, 114, 32>> \o apiKey

\* The handler suspended at its fetch, which carries the credential in its
\* Authorization header; timer is "armed" or "unarmed".
Awaiting(st, call, timer) ==
  [st EXCEPT !.phase = "await", !.calls = Append(st.calls, call), !.timer = timer,
             !.auth = Bearer(env.apiKey)]

\* finally { clearTimeout(timeoutId) }
Cleared(st) == [st EXCEPT !.timer = IF st.timer = "unarmed" THEN "unarmed" ELSE "cleared"]

\* A handler is invoked for the next request once the last one is delivered.
Ready == h.phase = "idle"

NoToken ==
  [held |-> FALSE, token |-> <<>>, mintedAt |-> 0, expires_at |-> 0,
   transcript |-> <<>>, used |-> FALSE]

\* The client keeps the token of a 200 reply of a Guard endpoint, with the
\* second it was minted at, the transcript it was minted for and whether it
\* has opened a session since.
Kept(st) ==
  IF st.phase = "done" /\ st.resp.guard_token.some
  THEN [held |-> TRUE, token |-> st.resp.guard_token.v, mintedAt |-> st.at,
        expires_at |-> st.resp.expires_at, transcript |-> st.resp.transcript.v,
        used |-> FALSE]
  ELSE wallet

----------------------------------------------------------------------------
(* Guard endpoints                                                         *)

GuardNetlifyVariants == {"guardNetlifyBroad", "guardNetlifyNarrow"}
GuardEdgeVariants    == {"guardEdgeBroad", "guardEdgeNarrow"}
GuardVariants        == GuardNetlifyVariants \cup GuardEdgeVariants \cup {"guardEdgeNoToken"}

SessionGuardedVariants == {"sessionGuardedBroad", "sessionGuardedNarrow"}
SessionEdgeVariants    == {"sessionEdgeTimer", "sessionEdgePlain"}
SessionVariants ==
  SessionGuardedVariants \cup SessionEdgeVariants \cup {"sessionNetlify", "sessionEdgeBody"}

\* PatternsOf with the two lists of the Guard and Session files exchanged.
PatternsOfSwapped(v) ==
  IF v \in {"guardNetlifyBroad", "guardEdgeBroad", "sessionGuardedBroad"}
  THEN blockedHealthPatternsNarrow
  ELSE IF v = "voiceChat" THEN blockedHealthPatternsVoiceChat
  ELSE blockedHealthPatternsBroad

\* The blockedHealthPatterns of the file a handler is in.
PatternsOf(v) ==
  IF v \in {"guardNetlifyBroad", "guardEdgeBroad", "sessionGuardedBroad"}
  THEN blockedHealthPatternsBroad
  ELSE IF v = "voiceChat" THEN blockedHealthPatternsVoiceChat
  ELSE blockedHealthPatternsNarrow

\* TextFallback with the text looked at before the transcript.
TextFallbackTextFirst(body) == Trim(Coalesce(body.text, Coalesce(body.transcript, Some(<<>>))).v)

\* (payload.transcript ?? payload.text ?? '').trim()
TextFallback(body) == Trim(Coalesce(body.transcript, Coalesce(body.text, Some(<<>>))).v)

\* data.text?.trim() || ''
TranscriptOf(reply) == IF reply.text.some THEN Trim(reply.text.v) ELSE <<>>

\* The classification skipped: every transcript passes.
GuardNeverBlocked(v, transcript) == FALSE

\* const blocked = transcript ? isBlockedHealthRequest(transcript) : false
GuardBlocked(v, transcript) ==
  IF Len(transcript) > 0 THEN isBlockedHealthRequest(PatternsOf(v), transcript) ELSE FALSE

GuardBlockedResp(transcript) == [ContentBlocked EXCEPT !.transcript = Some(transcript)]

\* GuardDecision with the transcript signed into the token.
GuardDecisionBoundToTranscript(v, secret, transcript, nowSec) ==
  IF GuardBlocked(v, transcript) THEN GuardBlockedResp(transcript)
  ELSE LET expiresAt == nowSec + guardTokenTtlSeconds
           token     == signGuardToken(secret \o transcript, expiresAt)
       IN  [JsonResp(200, "") EXCEPT !.allowed = TRUE, !.transcript = Some(transcript),
                                     !.guard_token = Some(token), !.expires_at = expiresAt]

\* GuardDecision with the expiry written into the token a lifetime later than
\* the one reported in expires_at.
GuardDecisionLongLived(v, secret, transcript, nowSec) ==
  IF GuardBlocked(v, transcript) THEN GuardBlockedResp(transcript)
  ELSE LET expiresAt == nowSec + guardTokenTtlSeconds
           token     == signGuardToken(secret, expiresAt + guardTokenTtlSeconds)
       IN  [JsonResp(200, "") EXCEPT !.allowed = TRUE, !.transcript = Some(transcript),
                                     !.guard_token = Some(token), !.expires_at = expiresAt]

\* GuardDecision with a 400 of its own for an empty transcript, as the
\* Voice-Chat handler has.
GuardDecisionRequiringText(v, secret, transcript, nowSec) ==
  IF Len(transcript) = 0 THEN JsonResp(400, "Empty transcript")
  ELSE IF GuardBlocked(v, transcript) THEN GuardBlockedResp(transcript)
  ELSE LET expiresAt == nowSec + guardTokenTtlSeconds
           token     == signGuardToken(secret, expiresAt)
       IN  [JsonResp(200, "") EXCEPT !.allowed = TRUE, !.transcript = Some(transcript),
                                     !.guard_token = Some(token), !.expires_at = expiresAt]

\* The end of the minting Guard handlers: 403 with the transcript when it is
\* blocked, else a token that expires guardTokenTtlSeconds after Date.now().
GuardDecision(v, secret, transcript, nowSec) ==
  IF GuardBlocked(v, transcript) THEN GuardBlockedResp(transcript)
  ELSE LET expiresAt == nowSec + guardTokenTtlSeconds
           token     == signGuardToken(secret, expiresAt)
       IN  [JsonResp(200, "") EXCEPT !.allowed = TRUE, !.transcript = Some(transcript),
                                     !.guard_token = Some(token), !.expires_at = expiresAt]

\* The end of the Guard handler that mints nothing (guard.ts 504-520).
GuardVerdict(v, transcript) ==
  IF GuardBlocked(v, transcript) THEN GuardBlockedResp(transcript)
  ELSE [JsonResp(200, "") EXCEPT !.allowed = TRUE, !.transcript = Some(transcript)]

\* netlify/functions/realtime-guard.ts and part_004, up to the fetch or the
\* response.
GuardNetlifyStart(v, r) ==
  LET st == Started(v, r)
  IN  IF r.method = "OPTIONS" THEN Done(st, EmptyResp)
      ELSE IF r.method # "POST" THEN Done(st, MethodNotAllowed)
      ELSE IF Len(env.apiKey) = 0 THEN Done(st, ApiKeyMissing)
      ELSE IF Len(env.guardSecret) = 0 THEN Done(st, SecretMissing)
      ELSE IF r.bodyKind = "invalid" THEN Done(st, JsonResp(400, "Invalid JSON body"))
      ELSE IF Present(r.body.audio_base64) THEN Awaiting(st, "transcription", "armed")
      ELSE Cleared(Done([st EXCEPT !.timer = "armed"],
                        GuardDecision(v, env.guardSecret, TextFallback(r.body), now)))

\* ... and from the transcription reply on.
GuardNetlifyResume(st, reply) ==
  Cleared(
    IF reply.kind = "ok" THEN
      Done([st EXCEPT !.at = now],
           GuardDecision(st.v, env.guardSecret, TranscriptOf(reply), now))
    ELSE IF reply.kind = "status" THEN Done(st, UpstreamResp(reply))
    ELSE Done(st, UpstreamFailed(reply.kind)))

\* api/realtime/guard.ts 170-247 and 324-401: no method check, an unparseable
\* body is an absent payload, no timer and no catch around the fetch.
GuardEdgeStart(v, r) ==
  LET st   == Started(v, r)
      body == IF r.bodyKind = "json" THEN r.body ELSE EmptyBody
  IN  IF Len(env.apiKey) = 0 THEN Done(st, ApiKeyMissing)
      ELSE IF Len(env.guardSecret) = 0 THEN Done(st, SecretMissing)
      ELSE IF Present(body.audio_base64) THEN Awaiting(st, "transcription", "unarmed")
      ELSE Done(st, GuardDecision(v, env.guardSecret, TextFallback(body), now))

GuardEdgeResume(st, reply) ==
  IF reply.kind = "ok" THEN
    Done([st EXCEPT !.at = now],
         GuardDecision(st.v, env.guardSecret, TranscriptOf(reply), now))
  ELSE IF reply.kind = "status" THEN Done(st, UpstreamResp(reply))
  ELSE Threw(st)

\* api/realtime/guard.ts 455-521: the credential only, audio required, a
\* verdict and no token.
GuardEdgeNoTokenStart(v, r) ==
  LET st   == Started(v, r)
      body == IF r.bodyKind = "json" THEN r.body ELSE EmptyBody
  IN  IF Len(env.apiKey) = 0 THEN Done(st, ApiKeyMissing)
      ELSE IF ~Present(body.audio_base64) THEN Done(st, JsonResp(400, "audio_base64 is required"))
      ELSE Awaiting(st, "transcription", "unarmed")

GuardEdgeNoTokenResume(st, reply) ==
  IF reply.kind = "ok" THEN Done([st EXCEPT !.at = now], GuardVerdict(st.v, TranscriptOf(reply)))
  ELSE IF reply.kind = "status" THEN Done(st, UpstreamResp(reply))
  ELSE Threw(st)

GuardNetlifyReceive(v, r) ==
  /\ Ready
  /\ h' = GuardNetlifyStart(v, r)
  /\ wallet' = Kept(h')
  /\ UNCHANGED <<now, env, cx, rx, rep, pair>>

GuardNetlifyReply(reply) ==
  /\ h.phase = "await" /\ h.v \in GuardNetlifyVariants
  /\ h' = GuardNetlifyResume([h EXCEPT !.reply = reply], reply)
  /\ wallet' = Kept(h')
  /\ UNCHANGED <<now, env, cx, rx, rep, pair>>

GuardEdgeReceive(v, r) ==
  /\ Ready
  /\ h' = GuardEdgeStart(v, r)
  /\ wallet' = Kept(h')
  /\ UNCHANGED <<now, env, cx, rx, rep, pair>>

GuardEdgeReply(reply) ==
  /\ h.phase = "await" /\ h.v \in GuardEdgeVariants
  /\ reply.kind # "abort"
  /\ h' = GuardEdgeResume([h EXCEPT !.reply = reply], reply)
  /\ wallet' = Kept(h')
  /\ UNCHANGED <<now, env, cx, rx, rep, pair>>

GuardEdgeNoTokenReceive(r) ==
  /\ Ready
  /\ h' = GuardEdgeNoTokenStart("guardEdgeNoToken", r)
  /\ UNCHANGED <<now, env, wallet, cx, rx, rep, pair>>

GuardEdgeNoTokenReply(reply) ==
  /\ h.phase = "await" /\ h.v = "guardEdgeNoToken"
  /\ reply.kind # "abort"
  /\ h' = GuardEdgeNoTokenResume([h EXCEPT !.reply = reply], reply)
  /\ UNCHANGED <<now, env, wallet, cx, rx, rep, pair>>

----------------------------------------------------------------------------
(* Session endpoints                                                       *)

\* The safetySystemPrompt of each file that has one, as the lines it joins
\* with '\n' (the typographic apostrophe of session.ts 364 is written ').
\* api/realtime/session.ts 81-103
safetySystemPromptNetlify == <<
  "You are SmartDrive Voice, an in-car voice assistant.",
  "",
  "IMPORTANT SAFETY RULES:",
  "You must NOT provide:",
  "- medical advice",
  "- health-related recommendations",
  "- diagnosis or treatment suggestions",
  "- interpretation of symptoms",
  "- medication or dosage information",
  "",
  "If the user asks any health or medical-related question:",
  "- Politely refuse",
  "- State that you cannot provide medical information",
  "- Advise the user to consult a qualified healthcare professional",
  "",
  "You may assist only with:",
  "- general conversation",
  "- driving-related assistance",
  "- productivity",
  "- navigation-style help",
  "- non-medical informational requests"
>>

\* api/realtime/session.ts 349-374
safetySystemPromptGuarded == <<
  "You are SmartDrive Voice, an in-car voice assistant.",
  "",
  "CRITICAL SAFETY RULES (NO EXCEPTIONS):",
  "You must NOT provide:",
  "- medical advice",
  "- health-related recommendations",
  "- diagnosis or treatment suggestions",
  "- interpretation of symptoms",
  "- medication names, dosage, or OTC guidance",
  "- diet recommendations or meal plans",
  "- macro calculations, calorie targets, or nutrition prescriptions",
  "",
  "If the user asks any health, medical, or nutrition-related question:",
  "- Respond with this exact refusal, and nothing else:",
  "\"I'm not able to provide medical or nutrition advice. Please consult a qualified healthcare professional.\"",
  "- Do not add follow-up questions, warnings, or alternative suggestions.",
  "- Do not mention any medications or health-related details.",
  "",
  "You may assist only with:",
  "- general conversation",
  "- driving-related assistance",
  "- productivity",
  "- navigation-style help",
  "- non-medical informational requests"
>>

\* part_003 55-80
safetySystemPromptNarrow == <<
  "You are SmartDrive Voice, an in-car voice assistant.",
  "",
  "IMPORTANT SAFETY RULES:",
  "You must NOT provide:",
  "- medical advice",
  "- health-related recommendations",
  "- diagnosis or treatment suggestions",
  "- interpretation of symptoms",
  "- medication or dosage information",
  "- diet recommendations or meal plans",
  "- macro calculations, calorie targets, or nutrition prescriptions",
  "",
  "If the user asks any health, medical, or nutrition-related question:",
  "- Politely refuse",
  "- State that you cannot provide medical or nutrition advice",
  "- Advise the user to consult a qualified healthcare professional",
  "- Do NOT provide recommendations, calculations, or personalized guidance",
  "",
  "You may assist only with:",
  "- general conversation",
  "- driving-related assistance",
  "- productivity",
  "- navigation-style help",
  "- non-medical informational requests"
>>

\* The `instructions` of the body a Session handler posts to the Realtime
\* API: session.ts 164 and 509, part_003 214; the bodies of session.ts 34-38,
\* part_002 28-32 and guard.ts 608-612 have model, voice and modalities only.
SessionInstructions(v) ==
  CASE v = "sessionNetlify"        -> Some(safetySystemPromptNetlify)
    [] v = "sessionGuardedBroad"   -> Some(safetySystemPromptGuarded)
    [] v = "sessionGuardedNarrow"  -> Some(safetySystemPromptNarrow)
    [] OTHER                       -> Absent

\* UserText with the transcript looked at first.
UserTextTranscriptFirst(body) ==
  Coalesce(body.transcript,
    Coalesce(body.user_text, Coalesce(body.text, Coalesce(body.prompt, body.query))))

\* payload.user_text ?? payload.text ?? payload.prompt ?? payload.query
\*   ?? payload.transcript
UserText(body) ==
  Coalesce(body.user_text,
    Coalesce(body.text, Coalesce(body.prompt, Coalesce(body.query, body.transcript))))

\* if (userText && isBlockedHealthRequest(userText))
SessionTextBlocked(v, body) ==
  Present(UserText(body)) /\ isBlockedHealthRequest(PatternsOf(v), UserText(body).v)

\* The guard check with a token spent by the session it opened.
SessionGuardFailsOnReplay(body, secret, nowSec) ==
  \/ ~Present(body.guard_token)
  \/ ~isValidGuardToken(body.guard_token.v, secret, nowSec)
  \/ (wallet.held /\ wallet.used /\ body.guard_token = Some(wallet.token))

\* The guard check reduced to the presence of a well-signed token, its expiry
\* not looked at.
SessionGuardFailsUnlessSigned(body, secret, nowSec) ==
  ~Present(body.guard_token) \/ ~isValidGuardToken(body.guard_token.v, secret, 0)

\* The guard check with a store of the tokens of the requests in flight: a
\* token is refused while another request waits for its session.
SessionGuardFailsWhileInUse(body, secret, nowSec) ==
  \/ ~Present(body.guard_token)
  \/ ~isValidGuardToken(body.guard_token.v, secret, nowSec)
  \/ \E p \in DOMAIN pair :
       pair[p].h.phase = "await" /\ pair[p].h.req.body.guard_token = body.guard_token

\* token.split('.') of isValidGuardToken on a guard_token that passed
\* !payload.guard_token and is no string: a TypeError, outside any try.
TokenSplitThrows(body) == ~body.guard_token.some /\ Truthy(body.guard_token_other)

\* if (!payload.guard_token || !isValidGuardToken(payload.guard_token, guardSecret))
SessionGuardFails(body, secret, nowSec) ==
  ~Present(body.guard_token) \/ ~isValidGuardToken(body.guard_token.v, secret, nowSec)

\* SessionGuardedStart with a 401 of its own for a request without a token.
SessionGuardedStartTellsCause(v, r) ==
  LET st   == Started(v, r)
      body == IF r.bodyKind = "json" THEN r.body ELSE EmptyBody
  IN  IF r.method = "OPTIONS" THEN Done(st, EmptyResp)
      ELSE IF r.method # "POST" THEN Done(st, MethodNotAllowed)
      ELSE IF Len(env.apiKey) = 0 THEN Done(st, ApiKeyMissing)
      ELSE IF Len(env.guardSecret) = 0 THEN Done(st, SecretMissing)
      ELSE IF r.bodyKind = "invalid" THEN Threw(st)
      ELSE IF SessionTextBlocked(v, body) THEN Done(st, ContentBlocked)
      ELSE IF ~Present(body.guard_token) THEN Done(st, JsonResp(401, "guard_token is required"))
      ELSE IF SessionGuardFails(body, env.guardSecret, now) THEN Done(st, GuardFailed)
      ELSE Awaiting(st, "realtime", "armed")

\* SessionGuardedStart with the guard token checked before the text.
SessionGuardedStartTokenFirst(v, r) ==
  LET st   == Started(v, r)
      body == IF r.bodyKind = "json" THEN r.body ELSE EmptyBody
  IN  IF r.method = "OPTIONS" THEN Done(st, EmptyResp)
      ELSE IF r.method # "POST" THEN Done(st, MethodNotAllowed)
      ELSE IF Len(env.apiKey) = 0 THEN Done(st, ApiKeyMissing)
      ELSE IF Len(env.guardSecret) = 0 THEN Done(st, SecretMissing)
      ELSE IF r.bodyKind = "invalid" THEN Threw(st)
      ELSE IF SessionGuardFails(body, env.guardSecret, now) THEN Done(st, GuardFailed)
      ELSE IF SessionTextBlocked(v, body) THEN Done(st, ContentBlocked)
      ELSE Awaiting(st, "realtime", "armed")

\* api/realtime/session.ts 424-544 and part_003, up to the fetch or the
\* response.  parseBody is outside any try: a body that is not JSON throws.
SessionGuardedStart(v, r) ==
  LET st   == Started(v, r)
      body == IF r.bodyKind = "json" THEN r.body ELSE EmptyBody
  IN  IF r.method = "OPTIONS" THEN Done(st, EmptyResp)
      ELSE IF r.method # "POST" THEN Done(st, MethodNotAllowed)
      ELSE IF Len(env.apiKey) = 0 THEN Done(st, ApiKeyMissing)
      ELSE IF Len(env.guardSecret) = 0 THEN Done(st, SecretMissing)
      ELSE IF r.bodyKind = "invalid" THEN Threw(st)
      ELSE IF SessionTextBlocked(v, body) THEN Done(st, ContentBlocked)
      ELSE IF TokenSplitThrows(body) THEN Threw(st)
      ELSE IF SessionGuardFails(body, env.guardSecret, now) THEN Done(st, GuardFailed)
      ELSE Awaiting(st, "realtime", "armed")

\* SessionResume with the fetch made a second time after a transport failure.
SessionResumeRetrying(st, reply) ==
  IF reply.kind = "network" /\ Len(st.calls) < 2 THEN Awaiting(st, "realtime", "armed")
  ELSE Cleared(
    IF reply.kind = "ok" THEN Done(st, SessionCreated)
    ELSE IF reply.kind = "status" THEN Done(st, UpstreamResp(reply))
    ELSE Done(st, UpstreamFailed(reply.kind)))

\* The try/catch/finally around the session fetch of the handlers with a
\* timer and a catch that tells an abort from other failures.
SessionResume(st, reply) ==
  Cleared(
    IF reply.kind = "ok" THEN Done(st, SessionCreated)
    ELSE IF reply.kind = "status" THEN Done(st, UpstreamResp(reply))
    ELSE Done(st, UpstreamFailed(reply.kind)))

\* api/realtime/session.ts 116-199: no guard token, no re-check.
SessionNetlifyStart(v, r) ==
  LET st == Started(v, r)
  IN  IF r.method = "OPTIONS" THEN Done(st, EmptyResp)
      ELSE IF r.method # "POST" THEN Done(st, MethodNotAllowed)
      ELSE IF Len(env.apiKey) = 0 THEN Done(st, ApiKeyMissing)
      ELSE IF r.bodyKind = "invalid" THEN Threw(st)
      ELSE Awaiting(st, "realtime", "armed")

\* api/realtime/guard.ts 576-646: the method, then the body (request.json()
\* throws on a missing or unparseable body), then the credential.
SessionEdgeBodyStart(v, r) ==
  LET st == Started(v, r)
  IN  IF r.method # "POST" THEN Done(st, MethodNotAllowed)
      ELSE IF r.bodyKind # "json" THEN Threw(st)
      ELSE IF Len(env.apiKey) = 0 THEN Done(st, [ApiKeyMissing EXCEPT !.kind = "json"])
      ELSE Awaiting(st, "realtime", "armed")

\* api/realtime/session.ts 12-69 (with a timer) and part_002 (without): the
\* handler takes no request.
SessionEdgeStart(v) ==
  LET st == Started(v, NoReq)
  IN  IF Len(env.apiKey) = 0 THEN Done(st, ApiKeyMissing)
      ELSE Awaiting(st, "realtime", IF v = "sessionEdgeTimer" THEN "armed" ELSE "unarmed")

\* session.ts 40-68: every rejection of the fetch is a 502; part_002 has no
\* catch at all.
SessionEdgeResume(st, reply) ==
  IF reply.kind = "ok" THEN Cleared(Done(st, SessionCreated))
  ELSE IF reply.kind = "status" THEN Cleared(Done(st, UpstreamResp(reply)))
  ELSE IF st.v = "sessionEdgeTimer" THEN Cleared(Done(st, JsonResp(502, "Upstream request failed")))
  ELSE Threw(st)

\* The client notes that its token has opened a session.
Used(st) ==
  IF st.phase = "await" /\ wallet.held /\ st.req.body.guard_token = Some(wallet.token)
  THEN [wallet EXCEPT !.used = TRUE]
  ELSE wallet

SessionGuardedReceive(v, r) ==
  /\ Ready
  /\ h' = [SessionGuardedStart(v, r) EXCEPT
             !.replay = wallet.held /\ wallet.used /\ r.body.guard_token = Some(wallet.token)]
  /\ wallet' = Used(h')
  /\ UNCHANGED <<now, env, cx, rx, rep, pair>>

SessionNetlifyReceive(r) ==
  /\ Ready
  /\ h' = SessionNetlifyStart("sessionNetlify", r)
  /\ UNCHANGED <<now, env, wallet, cx, rx, rep, pair>>

SessionEdgeBodyReceive(r) ==
  /\ Ready
  /\ h' = SessionEdgeBodyStart("sessionEdgeBody", r)
  /\ UNCHANGED <<now, env, wallet, cx, rx, rep, pair>>

SessionReply(reply) ==
  /\ h.phase = "await"
  /\ h.v \in SessionGuardedVariants \cup {"sessionNetlify", "sessionEdgeBody"}
  /\ h' = SessionResume([h EXCEPT !.reply = reply], reply)
  /\ UNCHANGED <<now, env, wallet, cx, rx, rep, pair>>

SessionEdgeReceive(v) ==
  /\ Ready
  /\ h' = SessionEdgeStart(v)
  /\ UNCHANGED <<now, env, wallet, cx, rx, rep, pair>>

SessionEdgeReply(reply) ==
  /\ h.phase = "await" /\ h.v \in SessionEdgeVariants
  /\ reply.kind = "abort" => h.timer = "armed"
  /\ h' = SessionEdgeResume([h EXCEPT !.reply = reply], reply)
  /\ UNCHANGED <<now, env, wallet, cx, rx, rep, pair>>

----------------------------------------------------------------------------
(* Voice-Chat endpoint (part_000)                                          *)

refusalText ==
  <<73, 32, 99, 97, 110, 39, 116, 32, 104, 101, 108, 112, 32, 119, 105, 116,
    104, 32, 116, 104, 97, 116, 46, 32, 80, 108, 101, 97, 115, 101, 32, 99,
    111, 110, 115, 117, 108, 116, 32, 97, 32, 113, 117, 97, 108, 105, 102,
    105, 101, 100, 32, 104, 101, 97, 108, 116, 104, 99, 97, 114, 101, 32,
    112, 114, 111, 102, 101, 115, 115, 105, 111, 110, 97, 108, 46>>

\* chatData.choices?.[0]?.message?.content?.trim() ?? 'Sorry, I cannot
\* respond right now.'
ChatReplyOf(reply) ==
  IF reply.text.some THEN Trim(reply.text.v)
  ELSE
    <<83, 111, 114, 114, 121, 44, 32, 73, 32, 99, 97, 110, 110, 111, 116, 32,
      114, 101, 115, 112, 111, 110, 100, 32, 114, 105, 103, 104, 116, 32,
      110, 111, 119, 46>>

LastCall(st) == st.calls[Len(st.calls)]

\* The classification skipped: every transcript goes on to the chat.
VoiceChatNeverBlocked(transcript) == FALSE

\* part_000 273: isBlockedHealthRequest(transcript)
VoiceChatBlocked(transcript) ==
  isBlockedHealthRequest(blockedHealthPatternsVoiceChat, transcript)

\* part_000 208-256: the credential, the body (request.json() throws on a
\* body that is missing or not JSON), the audio, then the transcription with
\* no timer.
VoiceChatStart(v, r) ==
  LET st == Started(v, r)
  IN  IF Len(env.apiKey) = 0 THEN Done(st, ApiKeyMissing)
      ELSE IF r.bodyKind # "json" THEN Done(st, JsonResp(400, "Invalid JSON body"))
      ELSE IF ~Present(r.body.audio_base64) THEN Done(st, JsonResp(400, "audio_base64 is required"))
      ELSE Awaiting(st, "transcription", "unarmed")

\* part_000 258-338: after each fetch.  No fetch is in a try.
VoiceChatResume(st, reply) ==
  IF reply.kind \notin {"ok", "status"} THEN Threw(st)
  ELSE IF reply.kind = "status" THEN Done(st, UpstreamResp(reply))
  ELSE IF LastCall(st) = "transcription" THEN
    LET transcript == TranscriptOf(reply)
    IN  IF Len(transcript) = 0 THEN Done(st, JsonResp(400, "Empty transcript"))
        ELSE IF VoiceChatBlocked(transcript)
        THEN Done(st, [JsonResp(200, "") EXCEPT !.response = Some(refusalText),
                                                !.blocked = TRUE,
                                                !.transcript = Some(transcript)])
        ELSE Awaiting([st EXCEPT !.resp.transcript = Some(transcript)], "chat", "unarmed")
  ELSE IF LastCall(st) = "chat" THEN
    Awaiting([st EXCEPT !.resp.response = Some(ChatReplyOf(reply))], "speech", "unarmed")
  ELSE
    Done(st, [JsonResp(200, "") EXCEPT !.response = st.resp.response, !.audio = TRUE,
                                       !.transcript = st.resp.transcript])

VoiceChatReceive(r) ==
  /\ Ready
  /\ h' = VoiceChatStart("voiceChat", r)
  /\ UNCHANGED <<now, env, wallet, cx, rx, rep, pair>>

VoiceChatReply(reply) ==
  /\ h.phase = "await" /\ h.v = "voiceChat"
  /\ reply \in (CASE LastCall(h) = "transcription" -> TranscriptionReplies \ {Reply("abort", Absent)}
                  [] LastCall(h) = "chat" -> ChatReplies
                  [] OTHER -> SpeechReplies)
  /\ h' = VoiceChatResume([h EXCEPT !.reply = reply], reply)
  /\ UNCHANGED <<now, env, wallet, cx, rx, rep, pair>>

----------------------------------------------------------------------------
(* Offer endpoints                                                         *)

OfferTimedVariants == {"offerEdge", "offerNetlify"}
OfferVariants      == OfferTimedVariants \cup {"offerEdgePlain"}

OfferCreated(reply) == [JsonResp(200, "") EXCEPT !.sdp = reply.text]

\* api/realtime/offer.ts 9-46: the credential, request.json() outside any
\* try, the sdp, then the fetch with no timer and no catch.
OfferEdgePlainStart(v, r) ==
  LET st == Started(v, r)
  IN  IF Len(env.apiKey) = 0 THEN Done(st, ApiKeyMissing)
      ELSE IF r.bodyKind # "json" THEN Threw(st)
      ELSE IF ~Present(r.body.sdp) THEN Done(st, JsonResp(400, "SDP is required"))
      ELSE Awaiting(st, "realtime", "unarmed")

OfferEdgePlainResume(st, reply) ==
  IF reply.kind = "ok" THEN Done(st, OfferCreated(reply))
  ELSE IF reply.kind = "status" THEN Done(st, UpstreamResp(reply))
  ELSE Threw(st)

\* api/realtime/offer.ts 98-171, part_001 and part_005: the method (OPTIONS
\* is answered 200 by part_005 only), the credential, the body in a try, the
\* sdp, then the fetch under a timer.
OfferTimedStart(v, r) ==
  LET st == Started(v, r)
  IN  IF v = "offerNetlify" /\ r.method = "OPTIONS" THEN Done(st, EmptyResp)
      ELSE IF r.method # "POST" THEN Done(st, MethodNotAllowed)
      ELSE IF Len(env.apiKey) = 0 THEN Done(st, ApiKeyMissing)
      ELSE IF r.bodyKind # "json" THEN Done(st, JsonResp(400, "Invalid JSON body"))
      ELSE IF ~Present(r.body.sdp) THEN Done(st, JsonResp(400, "SDP is required"))
      ELSE Awaiting(st, "realtime", "armed")

OfferTimedResume(st, reply) ==
  Cleared(
    IF reply.kind = "ok" THEN Done(st, OfferCreated(reply))
    ELSE IF reply.kind = "status" THEN Done(st, UpstreamResp(reply))
    ELSE Done(st, UpstreamFailed(reply.kind)))

OfferEdgePlainReceive(r) ==
  /\ Ready
  /\ h' = OfferEdgePlainStart("offerEdgePlain", r)
  /\ UNCHANGED <<now, env, wallet, cx, rx, rep, pair>>

OfferEdgePlainReply(reply) ==
  /\ h.phase = "await" /\ h.v = "offerEdgePlain"
  /\ reply.kind # "abort"
  /\ h' = OfferEdgePlainResume([h EXCEPT !.reply = reply], reply)
  /\ UNCHANGED <<now, env, wallet, cx, rx, rep, pair>>

OfferTimedReceive(v, r) ==
  /\ Ready
  /\ h' = OfferTimedStart(v, r)
  /\ UNCHANGED <<now, env, wallet, cx, rx, rep, pair>>

OfferTimedReply(reply) ==
  /\ h.phase = "await" /\ h.v \in OfferTimedVariants
  /\ h' = OfferTimedResume([h EXCEPT !.reply = reply], reply)
  /\ UNCHANGED <<now, env, wallet, cx, rx, rep, pair>>

----------------------------------------------------------------------------
(* The gateway                                                             *)

\* The clock moves to a later observed second, between handler steps.
Tick ==
  /\ h.phase \in {"idle", "await"}
  /\ \E t \in Instants : t > now /\ now' = t
  /\ UNCHANGED <<env, wallet, h, cx, rx, rep, pair>>

\* The client has its response; the gateway is idle again.
Deliver ==
  /\ h.phase \in {"done", "threw"}
  /\ h' = Idle
  /\ UNCHANGED <<now, env, wallet, cx, rx, rep, pair>>

\* The codec exercise is off while the gateway runs.
CxIdle ==
  [phase |-> "off", kind |-> "none", secret |-> <<>>, exp |-> 0, token |-> <<>>,
   vsecret |-> <<>>, vnow |-> 0, valid |-> FALSE, again |-> FALSE, vprev |-> 0,
   prevValid |-> FALSE]

\* So are the classifier exercise, the repeated calls and the pair of
\* concurrent requests.
RxIdle ==
  [phase |-> "off", text |-> <<>>, form |-> "plain", verdict |-> <<>>, base |-> <<>>]

RepIdle ==
  [phase |-> "off", lastIndex |-> <<>>, classified |-> <<>>, signed |-> <<>>,
   verified |-> <<>>, again |-> {}, same |-> TRUE]

PairIdle == <<>>

Init ==
  /\ now = Epoch
  /\ env \in Envs
  /\ wallet = NoToken
  /\ h = Idle
  /\ cx = CxIdle
  /\ rx = RxIdle
  /\ rep = RepIdle
  /\ pair = PairIdle

Next ==
  \/ \E v \in GuardNetlifyVariants, r \in GuardRequests : GuardNetlifyReceive(v, r)
  \/ \E reply \in TranscriptionReplies : GuardNetlifyReply(reply)
  \/ \E v \in GuardEdgeVariants, r \in GuardRequests : GuardEdgeReceive(v, r)
  \/ \E reply \in TranscriptionReplies : GuardEdgeReply(reply)
  \/ \E r \in GuardRequests : GuardEdgeNoTokenReceive(r)
  \/ \E reply \in TranscriptionReplies : GuardEdgeNoTokenReply(reply)
  \/ \E v \in SessionGuardedVariants, r \in SessionRequests : SessionGuardedReceive(v, r)
  \/ \E r \in OtherRequests : SessionNetlifyReceive(r)
  \/ \E r \in OtherRequests \cup {Req("POST", "json", EmptyBody)} : SessionEdgeBodyReceive(r)
  \/ \E reply \in RealtimeReplies : SessionReply(reply)
  \/ \E v \in SessionEdgeVariants : SessionEdgeReceive(v)
  \/ \E reply \in RealtimeReplies : SessionEdgeReply(reply)
  \/ \E r \in VoiceChatRequests : VoiceChatReceive(r)
  \/ \E reply \in TranscriptionReplies \cup ChatReplies \cup SpeechReplies : VoiceChatReply(reply)
  \/ \E r \in OfferRequests : OfferEdgePlainReceive(r)
  \/ \E reply \in OfferReplies : OfferEdgePlainReply(reply)
  \/ \E v \in OfferTimedVariants, r \in OfferRequests : OfferTimedReceive(v, r)
  \/ \E reply \in OfferReplies : OfferTimedReply(reply)
  \/ Tick
  \/ Deliver

Spec == Init /\ [][Next]_vars

----------------------------------------------------------------------------
(* The token codec on its own: signGuardToken and isValidGuardToken applied *)
(* to drawn secrets, expiry seconds, verification seconds and to tokens     *)
(* that were minted, altered in one character, cut or extended, or signed   *)
(* over another payload.                                                    *)

Secrets == {SecretA, SecretB}

\* Expiry seconds of two, three and four digits, so
\* that the payload takes each base64 padding length, and one (131) whose
\* digest under SecretA has a '/' in plain base64.
CodecExps == {99, 121, 131, Epoch + guardTokenTtlSeconds}

\* Verification seconds around an expiry second; the clock reads a positive
\* number of seconds.
SecondsAround(e) == {t \in (e - MaxSkew)..(e + MaxSkew) : t >= 1}

\* The url-safe base64 character after c (c itself when it is none).
NextUrlChar(c) ==
  LET v == (B64Value(c) + 1) % 64
  IN  IF B64Value(c) < 0 THEN c
      ELSE IF v = 62 THEN 45 ELSE IF v = 63 THEN 95 ELSE B64Char(v)

\* Characters one character of a token is changed to: its neighbour in the
\* alphabet, '.', '='.
TamperChars(c) == {NextUrlChar(c), 46, 61} \ {c}

\* Tokens whose segment count is not two, and a token that carries another
\* token's signature over a later expiry.
Malformations == {"onlyPayload", "extraSegment", "empty", "laterExpOldSignature"}

Malformed(kind, token, e) ==
  CASE kind = "onlyPayload"  -> Split(token, 46)[1]
    [] kind = "extraSegment" -> token \o <<46, 65>>
    [] kind = "empty"        -> <<>>
    [] kind = "laterExpOldSignature" ->
         Split(signGuardToken(SecretA, e + guardTokenTtlSeconds), 46)[1]
           \o <<46>> \o Split(token, 46)[2]

CodecSign ==
  /\ cx.phase = "new"
  /\ cx' = [cx EXCEPT !.phase = "token", !.kind = "minted",
                      !.token = signGuardToken(cx.secret, cx.exp)]
  /\ UNCHANGED <<now, env, wallet, h, rx, rep, pair>>

CodecCraft(kind) ==
  /\ cx.phase = "new"
  /\ cx' = [cx EXCEPT !.phase = "token", !.kind = kind,
                      !.token = SignedOver(cx.secret, PayloadText(kind, cx.exp))]
  /\ UNCHANGED <<now, env, wallet, h, rx, rep, pair>>

CodecTamper(i, c) ==
  /\ cx.phase = "token" /\ cx.kind = "minted"
  /\ i \in 1..Len(cx.token)
  /\ cx.token[i] # 46
  /\ c \in TamperChars(cx.token[i])
  /\ cx' = [cx EXCEPT !.kind = IF i < IndexFrom(cx.token, 46, 1) THEN "tamperedPayload"
                                ELSE "tamperedSignature",
                      !.token = [cx.token EXCEPT ![i] = c]]
  /\ UNCHANGED <<now, env, wallet, h, rx, rep, pair>>

CodecMalform(kind) ==
  /\ cx.phase = "token" /\ cx.kind = "minted"
  /\ cx' = [cx EXCEPT !.kind = kind, !.token = Malformed(kind, cx.token, cx.exp)]
  /\ UNCHANGED <<now, env, wallet, h, rx, rep, pair>>

\* isValidGuardToken(token, secret) at second t.
CodecVerify(secret, t) ==
  /\ cx.phase = "token"
  /\ cx' = [cx EXCEPT !.phase = "verified", !.vsecret = secret, !.vnow = t,
                      !.valid = isValidGuardToken(cx.token, secret, t)]
  /\ UNCHANGED <<now, env, wallet, h, rx, rep, pair>>

\* The same call again at a later second.
CodecVerifyAgain(t) ==
  /\ cx.phase = "verified" /\ ~cx.again
  /\ t > cx.vnow
  /\ cx' = [cx EXCEPT !.again = TRUE, !.prevValid = cx.valid, !.vprev = cx.vnow, !.vnow = t,
                      !.valid = isValidGuardToken(cx.token, cx.vsecret, t)]
  /\ UNCHANGED <<now, env, wallet, h, rx, rep, pair>>

CodecInit ==
  /\ now = Epoch
  /\ env = [apiKey |-> ApiKey, guardSecret |-> SecretA]
  /\ wallet = NoToken
  /\ h = Idle
  /\ cx \in {[CxIdle EXCEPT !.phase = "new", !.secret = s, !.exp = e] :
               s \in Secrets, e \in CodecExps}
  /\ rx = RxIdle
  /\ rep = RepIdle
  /\ pair = PairIdle

CodecNext ==
  \/ CodecSign
  \/ \E kind \in PayloadKinds : CodecCraft(kind)
  \/ \E i \in 1..Len(cx.token), c \in {45, 46, 61, 95} \cup 48..57 \cup 65..90 \cup 97..122 :
       CodecTamper(i, c)
  \/ \E kind \in Malformations : CodecMalform(kind)
  \/ \E secret \in Secrets, t \in SecondsAround(cx.exp) : CodecVerify(secret, t)
  \/ \E t \in SecondsAround(cx.exp) : CodecVerifyAgain(t)

SpecCodec == CodecInit /\ [][CodecNext]_vars

----------------------------------------------------------------------------
(* The classifiers on their own: the isBlockedHealthRequest of every file   *)
(* applied to the literals of the pattern lists and to texts without one,   *)
(* as they are, in capitals and inside a sentence.                          *)

\* The handlers that classify, one name for each copy of the function.
ClassifierVariants == GuardVariants \cup SessionGuardedVariants \cup {"voiceChat"}

\* The literals a pattern list looks for.
Literals(patterns) == {a.lit : a \in UNION {patterns[k] : k \in 1..Len(patterns)}}

TextEmpty == <<>>
TextTurnLeft == <<84, 117, 114, 110, 32, 108, 101, 102, 116>>  \* "Turn left"
TextMedicationQuestion ==  \* "What medication should I take for a headache?"
  <<87, 104, 97, 116, 32, 109, 101, 100, 105, 99, 97, 116, 105, 111, 110, 32, 115, 104, 111, 117, 108, 100, 32, 73, 32, 116, 97, 107, 101, 32, 102, 111, 114, 32, 97, 32, 104, 101, 97, 100, 97, 99, 104, 101, 63>>

\* Texts without a blocklisted term.
UnrelatedTexts == {TextEmpty, TextSpace, TextGas, TextTurnLeft}

\* Words that hold a short term of the lists inside them and nothing else of
\* the lists: fat, er, pain and the Russian zhir, zhar, imt, son.
TextFather == <<102, 97, 116, 104, 101, 114>>  \* "father"
TextDriver == <<100, 114, 105, 118, 101, 114>>  \* "driver"
TextPaint == <<112, 97, 105, 110, 116>>  \* "paint"
TextPassazhir == <<1087, 1072, 1089, 1089, 1072, 1078, 1080, 1088>>  \* passazhir, passenger
TextPozhar == <<1087, 1086, 1078, 1072, 1088>>  \* pozhar, fire
TextKlimt == <<1082, 1083, 1080, 1084, 1090>>  \* Klimt
TextPersona == <<1087, 1077, 1088, 1089, 1086, 1085, 1072>>  \* persona, person

EmbeddingTexts ==
  {TextFather, TextDriver, TextPaint, TextPassazhir, TextPozhar, TextKlimt, TextPersona}

ClassifiedTexts ==
  Literals(blockedHealthPatternsVoiceChat) \cup Literals(blockedHealthPatternsBroad)
    \cup Literals(blockedHealthPatternsNarrow) \cup UnrelatedTexts
    \cup {TextDiet, TextMedicationQuestion} \cup EmbeddingTexts

\* String.prototype.toUpperCase on Latin and Cyrillic letters.
ToUpperCase(s) ==
  [i \in 1..Len(s) |->
     IF s[i] \in 97..122 \/ s[i] \in 1072..1103 THEN s[i] - 32
     ELSE IF s[i] = 1105 THEN 1025
     ELSE s[i]]

TextBefore == <<79, 75, 32>>   \* "OK "
TextAfter  == <<32, 110, 111, 119>>  \* " now"

\* The same text said another way: in capitals, or inside a sentence.
Forms == {"upper", "within"}

Rewritten(form, text) ==
  IF form = "upper" THEN ToUpperCase(text) ELSE TextBefore \o text \o TextAfter

\* isBlockedHealthRequest(text) of every file.
ClassifyAll ==
  /\ rx.phase = "new"
  /\ rx' = [rx EXCEPT !.phase = "classified",
                      !.verdict = [v \in ClassifierVariants |->
                                     isBlockedHealthRequest(PatternsOf(v), rx.text)]]
  /\ UNCHANGED <<now, env, wallet, h, cx, rep, pair>>

\* The next text is the classified one said another way.
Rewrite(form) ==
  /\ rx.phase = "classified" /\ rx.form = "plain"
  /\ rx' = [rx EXCEPT !.phase = "new", !.form = form, !.text = Rewritten(form, rx.text),
                      !.base = rx.verdict]
  /\ UNCHANGED <<now, env, wallet, h, cx, rep, pair>>

ClassifyInit ==
  /\ now = Epoch
  /\ env = [apiKey |-> ApiKey, guardSecret |-> SecretA]
  /\ wallet = NoToken
  /\ h = Idle
  /\ cx = CxIdle
  /\ rx \in {[RxIdle EXCEPT !.phase = "new", !.text = t] : t \in ClassifiedTexts}
  /\ rep = RepIdle
  /\ pair = PairIdle

ClassifyNext ==
  \/ ClassifyAll
  \/ \E form \in Forms : Rewrite(form)

SpecClassify == ClassifyInit /\ [][ClassifyNext]_vars

----------------------------------------------------------------------------
(* The three functions called again and again, in any order, in one running *)
(* process: isBlockedHealthRequest on the RegExp objects of its module,     *)
(* signGuardToken and isValidGuardToken.                                    *)

\* The modules whose classifier is called, and the calls that are made: of
\* the classifier on a blocked text and on another, of signGuardToken, and of
\* isValidGuardToken on the minted token at its last second and after it,
\* and on another token.
RepeatVariants == {"guardNetlifyBroad", "sessionGuardedBroad"}
RepeatExp      == Epoch + guardTokenTtlSeconds

RepeatClassifications ==
  {<<"guardNetlifyBroad", TextDiet>>, <<"guardNetlifyBroad", TextGas>>,
   <<"sessionGuardedBroad", TextDiet>>}

RepeatVerifications ==
  {<<signGuardToken(SecretA, RepeatExp), SecretA, RepeatExp>>,
   <<signGuardToken(SecretA, RepeatExp), SecretA, RepeatExp + 1>>,
   <<TokenGarbage, SecretA, RepeatExp>>}

\* The result of a call kept with the results of the earlier calls of the
\* function, and compared with the result the same call had before.
Recorded(st, fn, call, result) ==
  IF call \in DOMAIN st[fn]
  THEN [st EXCEPT !.again = @ \cup {fn}, !.same = @ /\ st[fn][call] = result]
  ELSE [st EXCEPT ![fn] = [c \in DOMAIN @ \cup {call} |-> IF c = call THEN result ELSE @[c]]]

\* isBlockedHealthRequest(text) in the module of handler v.
RepeatClassify(v, text) ==
  /\ rep.phase = "on"
  /\ LET r == SomeTest(PatternsOf(v), rep.lastIndex[v], ToLowerCase(text))
     IN  rep' = Recorded([rep EXCEPT !.lastIndex[v] = r.lastIndex], "classified",
                         <<v, text>>, r.blocked)
  /\ UNCHANGED <<now, env, wallet, h, cx, rx, pair>>

\* signGuardToken(secret, expiresAt)
RepeatSign(secret, expiresAt) ==
  /\ rep.phase = "on"
  /\ rep' = Recorded(rep, "signed", <<secret, expiresAt>>, signGuardToken(secret, expiresAt))
  /\ UNCHANGED <<now, env, wallet, h, cx, rx, pair>>

\* isValidGuardToken(token, secret) at second t.
RepeatVerify(token, secret, t) ==
  /\ rep.phase = "on"
  /\ rep' = Recorded(rep, "verified", <<token, secret, t>>, isValidGuardToken(token, secret, t))
  /\ UNCHANGED <<now, env, wallet, h, cx, rx, pair>>

RepeatInit ==
  /\ now = Epoch
  /\ env = [apiKey |-> ApiKey, guardSecret |-> SecretA]
  /\ wallet = NoToken
  /\ h = Idle
  /\ cx = CxIdle
  /\ rx = RxIdle
  /\ rep = [RepIdle EXCEPT !.phase = "on",
                           !.lastIndex = [v \in RepeatVariants |->
                                            [k \in 1..Len(PatternsOf(v)) |-> 0]]]
  /\ pair = PairIdle

RepeatNext ==
  \/ \E c \in RepeatClassifications : RepeatClassify(c[1], c[2])
  \/ RepeatSign(SecretA, RepeatExp)
  \/ \E c \in RepeatVerifications : RepeatVerify(c[1], c[2], c[3])

SpecRepeat == RepeatInit /\ [][RepeatNext]_vars

----------------------------------------------------------------------------
(* Two requests in one process: the handlers of the two run one step at a   *)
(* time in any order, each suspended at its fetch while the other runs.     *)

Slots == {1, 2}

PairVariants == {"guardNetlifyBroad", "sessionGuardedBroad", "voiceChat"}

\* The clock of the pair: the last second of a token minted at Epoch, and
\* the second after.
PairInstants == {Epoch + guardTokenTtlSeconds, Epoch + guardTokenTtlSeconds + 1}

PairToken == signGuardToken(SecretA, Epoch + guardTokenTtlSeconds)

PairRequests(v) ==
  CASE v = "guardNetlifyBroad" ->
         {Req("POST", "json", [EmptyBody EXCEPT !.transcript = Some(TextGas)]),
          Req("POST", "json", [EmptyBody EXCEPT !.audio_base64 = Some(<<65, 65>>)])}
    [] v = "sessionGuardedBroad" ->
         {Req("POST", "json", [EmptyBody EXCEPT !.user_text = Some(t),
                                                !.guard_token = Some(PairToken)]) :
            t \in {TextGas, TextDiet}}
    [] OTHER ->
         {Req("POST", "json", [EmptyBody EXCEPT !.audio_base64 = Some(<<65, 65>>)])}

PairReplies(call) ==
  CASE call = "transcription" ->
         {Reply("ok", Some(TextGas)), Reply("ok", Some(TextDiet)), Reply("status", Some(TextQuota))}
    [] call = "realtime" -> {Reply("ok", Absent), Reply("abort", Absent)}
    [] call = "chat"     -> {Reply("ok", Some(TextLeft)), Reply("status", Some(TextQuota))}
    [] OTHER             -> {Reply("ok", Absent)}

\* The handler of each file, up to its fetch or its response, and from the
\* reply of a fetch on.
StartOf(v, r) ==
  CASE v \in GuardNetlifyVariants   -> GuardNetlifyStart(v, r)
    [] v \in SessionGuardedVariants -> SessionGuardedStart(v, r)
    [] OTHER                         -> VoiceChatStart(v, r)

ResumeOf(st, reply) ==
  CASE st.v \in GuardNetlifyVariants   -> GuardNetlifyResume([st EXCEPT !.reply = reply], reply)
    [] st.v \in SessionGuardedVariants -> SessionResume([st EXCEPT !.reply = reply], reply)
    [] OTHER                            -> VoiceChatResume([st EXCEPT !.reply = reply], reply)

\* One request of the pair: its handler, the second of each of its steps, the
\* replies its fetches had, and whether the other request was in flight at
\* one of its steps.
IdleSlot == [h |-> Idle, times |-> <<>>, replies |-> <<>>, overlapped |-> FALSE]

InFlight(p) == pair[p].h.phase = "await"

PairReceive(p, v, r) ==
  /\ pair[p].h.phase = "idle"
  /\ pair' = [pair EXCEPT ![p] = [h |-> StartOf(v, r), times |-> <<now>>, replies |-> <<>>,
                                  overlapped |-> \E q \in Slots \ {p} : InFlight(q)]]
  /\ UNCHANGED <<now, env, wallet, h, cx, rx, rep>>

PairReply(p, reply) ==
  /\ InFlight(p)
  /\ reply \in PairReplies(LastCall(pair[p].h))
  /\ pair' = [pair EXCEPT ![p] = [h |-> ResumeOf(pair[p].h, reply),
                                  times |-> Append(pair[p].times, now),
                                  replies |-> Append(pair[p].replies, reply),
                                  overlapped |-> pair[p].overlapped
                                                   \/ \E q \in Slots \ {p} : InFlight(q)]]
  /\ UNCHANGED <<now, env, wallet, h, cx, rx, rep>>

PairTick ==
  /\ \E t \in PairInstants : t > now /\ now' = t
  /\ UNCHANGED <<env, wallet, h, cx, rx, rep, pair>>

PairInit ==
  /\ now = Epoch + guardTokenTtlSeconds
  /\ env = [apiKey |-> ApiKey, guardSecret |-> SecretA]
  /\ wallet = NoToken
  /\ h = Idle
  /\ cx = CxIdle
  /\ rx = RxIdle
  /\ rep = RepIdle
  /\ pair = [p \in Slots |-> IdleSlot]

PairNext ==
  \/ \E p \in Slots, v \in PairVariants : \E r \in PairRequests(v) : PairReceive(p, v, r)
  \/ \E p \in Slots :
       \E reply \in TranscriptionReplies \cup RealtimeReplies \cup ChatReplies \cup SpeechReplies :
         PairReply(p, reply)
  \/ PairTick

SpecPair == PairInit /\ [][PairNext]_vars

----------------------------------------------------------------------------
(* The guarded Session handlers on requests that carry their text under     *)
(* any of the five names, with and without a valid token, and on requests   *)
(* whose guard_token is not a string.                                       *)

\* The names a Session request may carry its text under, in the order the
\* handler looks at them.
SessionTextFields == <<"user_text", "text", "prompt", "query", "transcript">>

\* How many of the five a request carries at most.
MaxFields == 2

\* A text property: left out (or null), empty, allowed, blocked.
FieldValues == {Absent, Some(<<>>), Some(TextGas), Some(TextDiet)}

\* guard_token values that are not strings: null, numbers, booleans, an
\* object, an array.
NonStringTokens == {Null, Num(0), Num(5), Bool(FALSE), Bool(TRUE), Obj, Arr}

FieldRequests ==
  {Req("POST", "json",
       [EmptyBody EXCEPT !.user_text = f[1], !.text = f[2], !.prompt = f[3],
                         !.query = f[4], !.transcript = f[5], !.guard_token = g]) :
     f \in {x \in [1..5 -> FieldValues] : Cardinality({k \in 1..5 : x[k].some}) <= MaxFields},
     g \in {Absent, Some(PairToken)}}
    \cup {Req("POST", "json", [EmptyBody EXCEPT !.user_text = u, !.guard_token_other = g]) :
            u \in {Absent, Some(TextGas), Some(TextDiet)}, g \in NonStringTokens}

FieldsInit ==
  /\ now = Epoch
  /\ env = [apiKey |-> ApiKey, guardSecret |-> SecretA]
  /\ wallet = NoToken
  /\ h = Idle
  /\ cx = CxIdle
  /\ rx = RxIdle
  /\ rep = RepIdle
  /\ pair = PairIdle

FieldsNext ==
  \/ \E v \in SessionGuardedVariants, r \in FieldRequests : SessionGuardedReceive(v, r)
  \/ \E reply \in RealtimeReplies : SessionReply(reply)
  \/ Deliver

SpecFields == FieldsInit /\ [][FieldsNext]_vars

----------------------------------------------------------------------------
(* One request run twice, under two configurations that differ in the       *)
(* credential, in the signing secret or in both, at the same second and     *)
(* with the same replies of the collaborators.                              *)

ApiKeyOther == <<115, 107, 50>>               \* "sk2"

TwinEnvs == [apiKey : {ApiKey, ApiKeyOther}, guardSecret : Secrets]

\* The requests of the pair, and Session requests without a token and with
\* the token of the other secret.
TwinRequests(v) ==
  PairRequests(v) \cup
    (IF v = "sessionGuardedBroad"
     THEN {Req("POST", "json", [EmptyBody EXCEPT !.guard_token = g]) :
             g \in {Absent, Some(signGuardToken(SecretB, Epoch + guardTokenTtlSeconds))}}
     ELSE {})

\* One run: its handler, the replies its fetches had, the configuration it
\* ran under.
TwinSlot == [h |-> Idle, replies |-> <<>>, env |-> [apiKey |-> <<>>, guardSecret |-> <<>>]]

Finished(p) == pair[p].h.phase \in {"done", "threw"}

\* The first run.
TwinFirst(v, r) ==
  /\ pair[1].h.phase = "idle"
  /\ pair' = [pair EXCEPT ![1] = [h |-> StartOf(v, r), replies |-> <<>>, env |-> env]]
  /\ UNCHANGED <<now, env, wallet, h, cx, rx, rep>>

\* The process is started again with other values of its variables.
TwinReconfigure(e) ==
  /\ Finished(1) /\ pair[2].h.phase = "idle"
  /\ env = pair[1].env /\ e # env
  /\ env' = e
  /\ UNCHANGED <<now, wallet, h, cx, rx, rep, pair>>

\* The second run: the request of the first.
TwinSecond ==
  /\ Finished(1) /\ pair[2].h.phase = "idle"
  /\ env # pair[1].env
  /\ pair' = [pair EXCEPT ![2] = [h |-> StartOf(pair[1].h.v, pair[1].h.req),
                                  replies |-> <<>>, env |-> env]]
  /\ UNCHANGED <<now, env, wallet, h, cx, rx, rep>>

\* A fetch of a run is answered; in the second run as it was in the first,
\* as far as the first run went.
TwinReply(p, reply) ==
  /\ InFlight(p)
  /\ reply \in PairReplies(LastCall(pair[p].h))
  /\ (p = 2 /\ Len(pair[2].replies) < Len(pair[1].replies))
       => reply = pair[1].replies[Len(pair[2].replies) + 1]
  /\ pair' = [pair EXCEPT ![p] = [h |-> ResumeOf(pair[p].h, reply),
                                  replies |-> Append(pair[p].replies, reply),
                                  env |-> pair[p].env]]
  /\ UNCHANGED <<now, env, wallet, h, cx, rx, rep>>

TwinInit ==
  /\ now = Epoch + guardTokenTtlSeconds
  /\ env \in TwinEnvs
  /\ wallet = NoToken
  /\ h = Idle
  /\ cx = CxIdle
  /\ rx = RxIdle
  /\ rep = RepIdle
  /\ pair = [p \in Slots |-> TwinSlot]

TwinNext ==
  \/ \E v \in PairVariants : \E r \in TwinRequests(v) : TwinFirst(v, r)
  \/ \E e \in TwinEnvs : TwinReconfigure(e)
  \/ TwinSecond
  \/ \E p \in Slots :
       \E reply \in TranscriptionReplies \cup RealtimeReplies \cup ChatReplies \cup SpeechReplies :
         TwinReply(p, reply)

SpecTwin == TwinInit /\ [][TwinNext]_vars

----------------------------------------------------------------------------
(* Properties of the token codec (checked under SpecCodec).                 *)

Verified == cx.phase = "verified"

\* The payload segment of the token under verification, decoded and parsed.
TokenPayload == ParseJSON(base64UrlDecode(Split(cx.token, 46)[1]))

\* C3: a token minted by signGuardToken(secret, exp) is accepted by
\* isValidGuardToken under the same secret at every second up to exp.
C3_MintedTokenVerifies ==
  (Verified /\ cx.kind = "minted" /\ cx.vsecret = cx.secret /\ cx.vnow <= cx.exp)
    => cx.valid

C3_Witness ==
  /\ Verified /\ cx.kind = "minted" /\ cx.vsecret = cx.secret
  /\ cx.vnow < cx.exp /\ cx.valid
  /\ Len(cx.token) % 4 # 0

C6_OtherSecretRejected ==
  (Verified /\ cx.kind = "minted" /\ cx.vsecret # cx.secret) => ~cx.valid

C6_Witness ==
  /\ Verified /\ cx.kind = "minted" /\ cx.vsecret # cx.secret
  /\ cx.vnow < cx.exp /\ ~cx.valid

\* C7: a minted token with one character of its payload segment or of its
\* signature segment changed is rejected under the secret that minted it.
C7_TamperedTokenRejected ==
  (Verified /\ cx.kind \in {"tamperedPayload", "tamperedSignature"} /\ cx.vsecret = cx.secret)
    => ~cx.valid

\* A changed payload character that makes the payload read a later exp, on a
\* token verified after its minted exp.
C7_Witness ==
  /\ Verified /\ cx.kind = "tamperedPayload" /\ cx.vsecret = cx.secret
  /\ cx.vnow > cx.exp
  /\ Len(Split(cx.token, 46)) = 2
  /\ PayloadAccepted(Split(cx.token, 46)[1], cx.vnow)
  /\ TokenPayload.exp.n > cx.exp
  /\ ~cx.valid

C7_WitnessSignature ==
  /\ Verified /\ cx.kind = "tamperedSignature" /\ cx.vsecret = cx.secret
  /\ cx.vnow <= cx.exp /\ ~cx.valid
  /\ cx.token[Len(cx.token)] = NextUrlChar(signGuardToken(cx.secret, cx.exp)[Len(cx.token)])

\* The tokens C8 lists: a segment count other than two, a signature that does
\* not match, a payload that is not JSON, a payload without exp, and a
\* payload whose allowed is not the boolean true.
RefusedKinds ==
  {"onlyPayload", "extraSegment", "empty", "tamperedSignature", "laterExpOldSignature",
   "notJson", "noExp", "expZero", "noAllowed", "allowedFalse", "allowedNull",
   "allowedOne", "allowedString"}

\* C8: isValidGuardToken returns false for every token with a segment count
\* other than two, a mismatching signature, a payload that does not parse, a
\* missing exp, an allowed other than the boolean true, or an exp before the
\* verification second.
C8_FailClosed ==
  Verified =>
    /\ cx.kind \in RefusedKinds => ~cx.valid
    /\ cx.vnow > cx.exp => ~cx.valid

\* What the code does hold to: the same with allowed read for its truthiness.
C8_FailClosedOnFalsyAllowed ==
  Verified =>
    /\ cx.kind \in (RefusedKinds \ {"allowedOne", "allowedString"}) => ~cx.valid
    /\ cx.vnow > cx.exp => ~cx.valid

----------------------------------------------------------------------------
(* Properties of the gateway (checked under Spec).                          *)

Configured == Len(env.apiKey) > 0 /\ Len(env.guardSecret) > 0

\* The handler in hand got past its method, configuration and body checks.
Admitted == h.req.method = "POST" /\ Configured /\ h.req.bodyKind # "invalid"

Called(call) == \E i \in 1..Len(h.calls) : h.calls[i] = call

\* The transcript a Guard handler classifies: the transcription of the audio
\* when audio was sent, else the trimmed text of the request.
RequestTranscript ==
  IF h.req.bodyKind = "json" /\ Present(h.req.body.audio_base64)
  THEN TranscriptOf(h.reply)
  ELSE TextFallback(IF h.req.bodyKind = "json" THEN h.req.body ELSE EmptyBody)

\* C1: a Session handler calls the Realtime API only for a request that
\* carries a guard token which verifies under the configured secret at the
\* second of the request, and whose text is not blocked.
C1_SessionOnlyWithVerifiedToken ==
  (h.v \in SessionVariants /\ Called("realtime")) =>
    /\ h.req.bodyKind = "json"
    /\ Present(h.req.body.guard_token)
    /\ isValidGuardToken(h.req.body.guard_token.v, env.guardSecret, h.at)
    /\ ~SessionTextBlocked(h.v, h.req.body)

\* C2: a Guard handler hands out a token only with the transcript of the
\* request, which its classifier does not block; a transcript its classifier
\* blocks is answered 403 with blocked = true and the transcript, without a
\* guard_token.
C2_TokenOnlyForUnblockedTranscript ==
  (h.v \in GuardVariants /\ h.phase = "done") =>
    /\ h.resp.guard_token.some =>
         /\ h.resp.status = 200
         /\ h.resp.transcript = Some(RequestTranscript)
         /\ ~isBlockedHealthRequest(PatternsOf(h.v), RequestTranscript)
    /\ (h.resp.transcript.some /\ isBlockedHealthRequest(PatternsOf(h.v), h.resp.transcript.v)) =>
         /\ h.resp.status = 403
         /\ h.resp.blocked
         /\ h.resp.transcript = Some(RequestTranscript)
         /\ ~h.resp.guard_token.some

C2_Witness ==
  /\ h.v \in GuardVariants /\ h.phase = "done"
  /\ Present(h.req.body.audio_base64)
  /\ h.resp.transcript.some
  /\ isBlockedHealthRequest(PatternsOf(h.v), h.resp.transcript.v)
  /\ h.resp.status = 403 /\ h.resp.blocked /\ ~h.resp.guard_token.some

\* The payload carried by the token of the response in hand.
MintedPayload == ParseJSON(base64UrlDecode(Split(h.resp.guard_token.v, 46)[1]))

\* A guarded Session handler has checked the token the client holds, on a
\* request it admitted and whose text it does not block.
CheckedHeldToken ==
  /\ h.v \in SessionGuardedVariants /\ h.phase \in {"await", "done"}
  /\ Admitted
  /\ wallet.held /\ h.req.body.guard_token = Some(wallet.token)
  /\ ~SessionTextBlocked(h.v, h.req.body)

\* C5: a minted token carries allowed = true and exp = the second of minting
\* + 120, the expires_at of the response; a guarded Session handler under the
\* same secret accepts it at every second up to that one and at none after.
C5_TokenLivesTwoMinutes ==
  /\ (h.v \in GuardVariants /\ h.phase = "done" /\ h.resp.guard_token.some) =>
       /\ MintedPayload.ok
       /\ MintedPayload.allowed = Bool(TRUE)
       /\ MintedPayload.exp = Num(h.at + 120)
       /\ h.resp.expires_at = h.at + 120
  /\ CheckedHeldToken => (Called("realtime") <=> h.at <= wallet.mintedAt + 120)

C5_Witness ==
  /\ CheckedHeldToken /\ Called("realtime")
  /\ h.at = wallet.mintedAt + 120
  /\ wallet.expires_at = h.at

C5_WitnessExpired ==
  /\ CheckedHeldToken /\ ~Called("realtime")
  /\ h.at = wallet.mintedAt + 121

\* C9: a guarded Session handler answers a request whose text is blocked with
\* the content refusal, whether or not its guard token is valid; the guard
\* refusal is the answer only when the text is not blocked.
C9_ContentRefusalFirst ==
  (h.v \in SessionGuardedVariants /\ h.phase = "done" /\ Admitted) =>
    /\ SessionTextBlocked(h.v, h.req.body) => h.resp = ContentBlocked
    /\ h.resp = GuardFailed => ~SessionTextBlocked(h.v, h.req.body)

C9_Witness ==
  /\ h.v \in SessionGuardedVariants /\ h.phase = "done" /\ Admitted
  /\ SessionTextBlocked(h.v, h.req.body)
  /\ ~SessionGuardFails(h.req.body, env.guardSecret, h.at)
  /\ h.resp = ContentBlocked

C9_WitnessNoToken ==
  /\ h.v \in SessionGuardedVariants /\ h.phase = "done" /\ Admitted
  /\ SessionTextBlocked(h.v, h.req.body)
  /\ ~Present(h.req.body.guard_token)
  /\ h.resp = ContentBlocked

\* The request in hand carries the token signGuardToken writes under the
\* configured secret for the second before the handler's clock.
CarriesJustExpiredToken ==
  /\ h.v \in SessionGuardedVariants /\ h.phase \in {"await", "done"}
  /\ Admitted
  /\ h.req.body.guard_token = Some(signGuardToken(env.guardSecret, h.at - 1))

\* C10: a guarded Session handler answers a request whose correctly signed
\* guard token expired one second before with 403 and blocked = true.
C10_ExpiredTokenRefused ==
  CarriesJustExpiredToken =>
    /\ h.phase = "done"
    /\ h.resp.status = 403
    /\ h.resp.blocked
    /\ ~Called("realtime")

C10_Witness ==
  /\ CarriesJustExpiredToken
  /\ Present(UserText(h.req.body))
  /\ ~SessionTextBlocked(h.v, h.req.body)
  /\ h.resp = GuardFailed

----------------------------------------------------------------------------
(* Configuration, validation and collaborator failures (checked under Spec) *)

\* The handlers that read GUARD_TOKEN_SECRET.
SecretUsers == GuardNetlifyVariants \cup GuardEdgeVariants \cup SessionGuardedVariants

InHand == h.phase # "idle"

Minted == h.resp.guard_token.some

\* C11: with the credential or the signing secret missing, a Guard or Session
\* handler answers a POST with 500, having made no call and minted nothing,
\* and its body unread.
C11_NoWorkWithoutConfiguration ==
  (InHand /\ h.v \in GuardVariants \cup SessionVariants /\ h.req.method = "POST"
     /\ (Len(env.apiKey) = 0 \/ Len(env.guardSecret) = 0))
    => /\ h.phase = "done"
       /\ h.resp.status = 500
       /\ h.calls = <<>>
       /\ ~Minted

\* The credential or, for a handler that reads it, the signing secret is
\* missing.
Unconfigured == Len(env.apiKey) = 0 \/ (h.v \in SecretUsers /\ Len(env.guardSecret) = 0)

\* C12: no request is answered 405 or 400 while the configuration is missing.
C12_ConfigurationCheckedFirst ==
  (h.phase = "done" /\ Unconfigured) => h.resp.status \notin {400, 405}

\* C13: with the configuration present, a POST whose body is not JSON is
\* answered 400, with no token minted and no collaborator called.
C13_UnparseableBodyIs400 ==
  (InHand /\ h.v \notin SessionEdgeVariants /\ Configured
     /\ h.req.method = "POST" /\ h.req.bodyKind = "invalid")
    => /\ h.phase = "done"
       /\ h.resp.status = 400
       /\ h.calls = <<>>
       /\ ~Minted

\* The transcription came back 2xx with a text that is missing or empty once
\* trimmed, and the handler has gone on from it.
EmptyTranscription ==
  /\ h.phase \in {"done", "threw"}
  /\ h.calls = <<"transcription">>
  /\ h.reply.kind = "ok" /\ Len(TranscriptOf(h.reply)) = 0

\* C14: a successful transcription with no text is answered 400; no token is
\* minted for it and no chat call is made.
C14_EmptyTranscriptionIs400 ==
  (h.v \in GuardNetlifyVariants \cup GuardEdgeVariants \cup {"voiceChat"} /\ EmptyTranscription)
    => /\ h.phase = "done"
       /\ h.resp.status = 400
       /\ ~Minted

\* C15: a guarded Session handler answers every token failure on a request
\* whose text it does not block with one and the same response, 403 'Guard
\* verification failed.', whatever made the token fail.
C15_OneAnswerForEveryTokenFailure ==
  (h.v \in SessionGuardedVariants /\ InHand /\ Admitted
     /\ ~SessionTextBlocked(h.v, h.req.body)
     /\ SessionGuardFails(h.req.body, env.guardSecret, h.at))
    => h.phase = "done" /\ h.resp = GuardFailed

C15_Witness ==
  /\ h.v \in SessionGuardedVariants /\ h.phase = "done" /\ Admitted
  /\ h.req.body.guard_token =
       Some(SignedOver(env.guardSecret, PayloadText("allowedFalse", h.at + guardTokenTtlSeconds)))
  /\ h.resp = GuardFailed

\* C16: a token that has opened a session opens another for every later
\* request that presents it up to its expiry second; the decision is that of
\* isValidGuardToken on the token, the secret and the second alone.
C16_TokenReplayable ==
  (h.v \in SessionGuardedVariants /\ InHand /\ Admitted /\ h.replay
     /\ ~SessionTextBlocked(h.v, h.req.body))
    => /\ h.at <= wallet.expires_at => Called("realtime")
       /\ Called("realtime") <=>
            isValidGuardToken(h.req.body.guard_token.v, env.guardSecret, h.at)

C16_Witness ==
  /\ h.v \in SessionGuardedVariants /\ h.replay /\ Called("realtime")
  /\ h.at > wallet.mintedAt

\* C17: the token is signGuardToken of the secret and the expiry second,
\* whatever transcript it was minted for, and a guarded Session handler opens
\* a session exactly when the request's own text is not blocked and its token
\* verifies.
C17_TokenBoundToNoTranscript ==
  /\ wallet.held =>
       wallet.token = signGuardToken(env.guardSecret, wallet.mintedAt + guardTokenTtlSeconds)
  /\ (h.v \in SessionGuardedVariants /\ InHand /\ Admitted) =>
       (Called("realtime") <=>
          /\ ~SessionTextBlocked(h.v, h.req.body)
          /\ ~SessionGuardFails(h.req.body, env.guardSecret, h.at))

\* A session opened for one text with the token minted for another.
C17_Witness ==
  /\ CheckedHeldToken /\ Called("realtime")
  /\ Present(UserText(h.req.body))
  /\ Len(wallet.transcript) > 0
  /\ UserText(h.req.body).v # wallet.transcript

\* C18: a Session handler's call to the Realtime API runs under an armed
\* timer and is made once; an abort is answered 504 and any other transport
\* failure 502.
C18_SessionCallTimed ==
  h.v \in SessionVariants =>
    /\ h.phase = "await" => h.timer = "armed"
    /\ Len(h.calls) <= 1
    /\ (h.phase \in {"done", "threw"} /\ h.reply.kind = "abort")
         => (h.phase = "done" /\ h.resp.status = 504)
    /\ (h.phase \in {"done", "threw"} /\ h.reply.kind = "network")
         => (h.phase = "done" /\ h.resp.status = 502)

\* C19: every handler suspended at a call to a collaborator has its abort
\* timer armed.
C19_EveryCallTimed ==
  h.phase = "await" => h.timer = "armed"

\* C20: a Guard or Session handler answers a collaborator's non-2xx reply with
\* that reply's status and body, having made that one call, with no token and
\* no session credential.
C20_UpstreamStatusPassedOn ==
  (h.v \in GuardVariants \cup SessionVariants /\ h.phase \in {"done", "threw"}
     /\ h.reply.kind = "status")
    => /\ h.phase = "done"
       /\ h.resp.status = h.reply.status
       /\ h.resp.body = h.reply.text.v
       /\ h.resp.kind = "upstream"
       /\ Len(h.calls) = 1
       /\ ~Minted /\ ~h.resp.client_secret

C20_Witness ==
  /\ h.v \in GuardNetlifyVariants /\ h.phase = "done"
  /\ h.reply.kind = "status"
  /\ h.resp.status = UpstreamStatus /\ h.resp.body = TextQuota

----------------------------------------------------------------------------
(* Voice chat, session instructions, retries and errors (checked under Spec) *)

VoiceChat == h.v = "voiceChat"

\* C21: the Voice-Chat handler answers a transcript its classifier blocks with
\* 200, the refusal text, the transcript and blocked = true, having called the
\* transcription only; while the chat or the speech synthesis is called, and
\* when their result is returned, the transcript is one that is not blocked.
C21_VoiceChatRefusal ==
  VoiceChat =>
    /\ (h.phase \in {"done", "threw"} /\ Len(h.calls) = 1 /\ h.reply.kind = "ok"
          /\ isBlockedHealthRequest(blockedHealthPatternsVoiceChat, TranscriptOf(h.reply)))
         => /\ h.phase = "done"
            /\ h.resp.status = 200
            /\ h.resp.response = Some(refusalText)
            /\ h.resp.blocked
            /\ h.resp.transcript = Some(TranscriptOf(h.reply))
            /\ ~h.resp.audio
    /\ ((h.phase = "await" /\ Called("chat")) \/ (h.phase = "done" /\ h.resp.audio))
         => /\ h.resp.transcript.some
            /\ ~isBlockedHealthRequest(blockedHealthPatternsVoiceChat, h.resp.transcript.v)
            /\ ~h.resp.blocked

C21_Witness ==
  /\ VoiceChat /\ h.phase = "done"
  /\ h.calls = <<"transcription">>
  /\ h.reply = Reply("ok", Some(TextDiet))
  /\ h.resp.status = 200 /\ h.resp.blocked
  /\ h.resp.response = Some(refusalText)
  /\ h.resp.transcript = Some(TextDiet)

\* C22: in the Voice-Chat handler a call that fails is the last one: a
\* non-2xx reply is answered with its status and body, a transport failure
\* with no response, and only the response that follows the three calls has a
\* reply text, with its audio.
C22_VoiceChatStopsAtFailure ==
  VoiceChat =>
    /\ h.reply.kind \in {"status", "network"}
         => /\ h.phase \in {"done", "threw"}
            /\ ~Present(h.resp.response) \/ h.phase = "threw"
            /\ h.phase = "done"
                 => /\ h.reply.kind = "status"
                    /\ h.resp.status = h.reply.status
                    /\ h.resp.body = h.reply.text.v
                    /\ h.resp.kind = "upstream"
                    /\ ~h.resp.response.some /\ ~h.resp.audio /\ ~h.resp.transcript.some
    /\ (h.phase = "done" /\ h.resp.response.some /\ ~h.resp.blocked)
         => /\ h.resp.audio
            /\ h.calls = <<"transcription", "chat", "speech">>
            /\ h.reply.kind = "ok"

\* The speech synthesis answered 429 after the transcription and the chat.
C22_Witness ==
  /\ VoiceChat /\ h.phase = "done"
  /\ h.calls = <<"transcription", "chat", "speech">>
  /\ h.reply = Reply("status", Some(TextQuota))
  /\ h.resp.status = UpstreamStatus /\ h.resp.body = TextQuota
  /\ ~h.resp.response.some

\* C23: every Session handler that has called the Realtime API has sent it
\* the safety instructions of its file, whatever the request.
C23_SessionCarriesSafetyInstructions ==
  (h.v \in SessionVariants /\ Called("realtime"))
    => /\ SessionInstructions(h.v).some
       /\ SessionInstructions(h.v).v
            \in {safetySystemPromptNetlify, safetySystemPromptGuarded, safetySystemPromptNarrow}

\* C24: no handler calls a collaborator twice for one request, whatever the
\* collaborator answered: one call, or for the Voice-Chat handler the
\* transcription, the chat and the speech synthesis in that order.
C24_NoRetry ==
  /\ \A i, j \in 1..Len(h.calls) : h.calls[i] = h.calls[j] => i = j
  /\ ~VoiceChat => Len(h.calls) <= 1
  /\ VoiceChat => \E n \in 0..3 : h.calls = SubSeq(<<"transcription", "chat", "speech">>, 1, n)
  /\ (h.phase \in {"done", "threw"} /\ h.reply.kind \in {"status", "network", "abort"})
       => h.calls[Len(h.calls)] \notin {h.calls[i] : i \in 1..(Len(h.calls) - 1)}

\* A guarded Session handler answered a transport failure after its one call.
C24_Witness ==
  /\ h.v \in SessionGuardedVariants /\ h.phase = "done"
  /\ h.reply.kind = "network"
  /\ h.resp.status = 502
  /\ h.calls = <<"realtime">>

\* C27: no exception leaves a handler, an error response has a JSON body with
\* an error message unless it is the collaborator's own, and a body that is
\* not JSON is reported, not taken for an empty one.
C27_ErrorsStructuredAndSurfaced ==
  /\ h.phase # "threw"
  /\ (h.phase = "done" /\ h.resp.status >= 400 /\ h.resp.kind # "upstream")
       => (h.resp.kind = "json" /\ h.resp.error # "")
  /\ (h.phase = "done" /\ h.req.method = "POST" /\ h.req.bodyKind = "invalid"
        /\ Len(env.apiKey) > 0 /\ ~Unconfigured)
       => h.resp.status = 400

----------------------------------------------------------------------------
(* Properties of the classifiers (checked under SpecClassify).              *)

Classified == rx.phase = "classified"

\* The copies of the function over the narrow list and over the broad list.
NarrowTier == {"guardNetlifyNarrow", "guardEdgeNarrow", "guardEdgeNoToken", "sessionGuardedNarrow"}
BroadTier  == {"guardNetlifyBroad", "guardEdgeBroad", "sessionGuardedBroad"}

\* The pattern list of the file of each copy.
ListOf(v) ==
  IF v \in NarrowTier THEN blockedHealthPatternsNarrow
  ELSE IF v \in BroadTier THEN blockedHealthPatternsBroad
  ELSE blockedHealthPatternsVoiceChat

\* C28: a text is blocked exactly when some pattern of the list, in whatever
\* order, matches the text in lower case; a literal of the list is blocked, a
\* text without a term and the empty text are not, and the verdict on a text
\* in capitals or inside a sentence is the verdict on the text itself.
C28_BlockedIffSomePatternMatches ==
  Classified =>
    \A v \in ClassifierVariants :
      /\ rx.verdict[v] =
           (\E pattern \in {ListOf(v)[k] : k \in 1..Len(ListOf(v))} :
              PatternTest(pattern, ToLowerCase(rx.text)))
      /\ rx.form # "plain" => rx.verdict[v] = rx.base[v]
      /\ (rx.form = "plain" /\ rx.text \in Literals(ListOf(v))) => rx.verdict[v]
      /\ (rx.form = "plain" /\ rx.text \in UnrelatedTexts) => ~rx.verdict[v]

\* A term of the broad lists only, in capitals.
C28_Witness ==
  /\ Classified /\ rx.form = "upper"
  /\ rx.text = ToUpperCase(rx.text) /\ rx.text # ToLowerCase(rx.text)
  /\ rx.verdict["voiceChat"] /\ rx.verdict["guardNetlifyBroad"]
  /\ ~rx.verdict["guardNetlifyNarrow"]
  /\ rx.base = rx.verdict

\* C29: the classifier of every Guard, Session and Voice-Chat handler blocks
\* "What medication should I take for a headache?".
C29_MedicationQuestionBlocked ==
  (Classified /\ rx.form = "plain" /\ rx.text = TextMedicationQuestion)
    => \A v \in ClassifierVariants : rx.verdict[v]

\* C30: a text blocked over the narrow list is blocked over the broad list,
\* and a text blocked over the broad list is blocked by the Voice-Chat
\* classifier.
C30_BroadBlocksWhatNarrowBlocks ==
  Classified =>
    /\ \A n \in NarrowTier, b \in BroadTier : rx.verdict[n] => rx.verdict[b]
    /\ \A b \in BroadTier : rx.verdict[b] => rx.verdict["voiceChat"]

\* A literal of the narrow list, blocked by the three classifiers.
C30_Witness ==
  /\ Classified /\ rx.form = "plain"
  /\ rx.text \in Literals(blockedHealthPatternsNarrow)
  /\ \A v \in ClassifierVariants : rx.verdict[v]

----------------------------------------------------------------------------
(* Repeated calls (checked under SpecRepeat).                               *)

\* C26: whatever calls were made before, a call of isBlockedHealthRequest,
\* signGuardToken or isValidGuardToken returns what the same call returned
\* before, which is the value of the function on its arguments alone; the
\* RegExp objects are left as they were.
C26_SameCallSameResult ==
  /\ rep.same
  /\ \A c \in DOMAIN rep.classified :
       rep.classified[c] = isBlockedHealthRequest(PatternsOf(c[1]), c[2])
  /\ \A c \in DOMAIN rep.signed : rep.signed[c] = signGuardToken(c[1], c[2])
  /\ \A c \in DOMAIN rep.verified : rep.verified[c] = isValidGuardToken(c[1], c[2], c[3])
  /\ \A v \in DOMAIN rep.lastIndex : \A k \in DOMAIN rep.lastIndex[v] : rep.lastIndex[v][k] = 0

\* Each function was called again after calls of the others, on a blocked
\* text, a minted token and a token that verifies.
C26_Witness ==
  /\ rep.again = {"classified", "signed", "verified"}
  /\ rep.same
  /\ <<"guardNetlifyBroad", TextDiet>> \in DOMAIN rep.classified
  /\ rep.classified[<<"guardNetlifyBroad", TextDiet>>]
  /\ <<signGuardToken(SecretA, RepeatExp), SecretA, RepeatExp>> \in DOMAIN rep.verified
  /\ rep.verified[<<signGuardToken(SecretA, RepeatExp), SecretA, RepeatExp>>]
  /\ DOMAIN rep.classified = RepeatClassifications
  /\ DOMAIN rep.verified = RepeatVerifications

----------------------------------------------------------------------------
(* Concurrent requests (checked under SpecPair).                            *)

\* Two requests to one handler with the same body, the same clock reading at
\* each step and the same replies so far.
Twins(p, q) ==
  /\ pair[p].h.v = pair[q].h.v
  /\ pair[p].h.req = pair[q].h.req
  /\ pair[p].times = pair[q].times
  /\ pair[p].replies = pair[q].replies

C25_WitnessVoiceChat ==
  /\ pair[1].h.v = "voiceChat" /\ Twins(1, 2)
  /\ pair[1].overlapped /\ pair[2].overlapped
  /\ pair[1].h.phase = "done" /\ pair[1].h.resp.audio
  /\ pair[2].h = pair[1].h

----------------------------------------------------------------------------
(* Agreement of the classifiers and matching of short terms (checked under  *)
(* SpecClassify).                                                           *)

\* C31: on every text, the classifier of every Guard handler and the
\* classifier of every Session handler that checks a text again give the same
\* verdict.
C31_GuardAndSessionAgree ==
  Classified =>
    \A g \in GuardVariants, v \in SessionGuardedVariants : rx.verdict[g] = rx.verdict[v]

\* C32: a word that holds a short term of the lists (fat, er, pain, zhir,
\* zhar, imt, son) only inside it is not blocked by any classifier.
C32_ShortTermsMatchWholeWordsOnly ==
  (Classified /\ rx.text \in EmbeddingTexts) =>
    \A v \in ClassifierVariants : ~rx.verdict[v]

----------------------------------------------------------------------------
(* Shape of a minted token (checked under SpecCodec).                       *)

\* The characters of base64url: letters, digits, '-' and '_'.
UrlSafeChars == 48..57 \cup 65..90 \cup 97..122 \cup {45, 95}

MintedToken == cx.phase # "new" /\ cx.kind = "minted"

\* C33: a token signGuardToken returns has exactly one '.', and the two
\* segments the '.' separates are not empty and hold base64url characters
\* only: no '+', '/', '=' or '.'; the second is the signature of the first.
C33_TokenIsTwoUrlSafeSegments ==
  MintedToken =>
    LET parts == Split(cx.token, 46)
    IN  /\ Len(parts) = 2
        /\ Cardinality({i \in 1..Len(cx.token) : cx.token[i] = 46}) = 1
        /\ \A k \in 1..2 :
             /\ Len(parts[k]) > 0
             /\ \A i \in 1..Len(parts[k]) : parts[k][i] \in UrlSafeChars
        /\ parts[2] = HmacBase64Url(cx.secret, parts[1])

\* A minted token whose digest in plain base64 has a '+' or a '/' as well as
\* its padding.
C33_Witness ==
  /\ MintedToken
  /\ LET plain == HmacBase64(cx.secret, Split(cx.token, 46)[1])
     IN  /\ \E i \in 1..Len(plain) : plain[i] \in {43, 47}
         /\ plain[Len(plain)] = 61
  /\ \E i \in 1..Len(cx.token) : cx.token[i] \in {45, 95}

----------------------------------------------------------------------------
(* The text a Guard handler classifies (checked under Spec).                *)

\* What h.resp shows of a classification of text by the handler in h: the
\* text itself and the classifier's verdict on it.
ShowsClassified(text) ==
  /\ h.resp.status \in {200, 403}
  /\ h.resp.transcript = Some(text)
  /\ h.resp.blocked = GuardBlocked(h.v, text)

\* The transcript of the request in hand, trimmed, or without one its text,
\* trimmed.
TextOfRequest ==
  IF h.req.body.transcript.some THEN Trim(h.req.body.transcript.v)
  ELSE IF h.req.body.text.some THEN Trim(h.req.body.text.v)
  ELSE <<>>

\* A Guard handler has taken up a request whose body is a JSON object.
GuardAdmitted ==
  h.v \in GuardVariants /\ h.req.method = "POST" /\ Configured /\ h.req.bodyKind = "json"

\* C34: a Guard handler given audio classifies the text the transcription
\* returned, whatever transcript or text the request carries; given no audio
\* it makes no outbound call, and the text it classifies is the trimmed
\* transcript of the request, or without one the trimmed text.  (The handler
\* that mints nothing classifies no text without audio.)
C34_GuardTextSource ==
  GuardAdmitted =>
    IF Present(h.req.body.audio_base64)
    THEN (h.phase = "done" /\ h.reply.kind = "ok")
           => ShowsClassified(IF h.reply.text.some THEN Trim(h.reply.text.v) ELSE <<>>)
    ELSE /\ h.calls = <<>>
         /\ h.phase = "done"
         /\ h.v # "guardEdgeNoToken" => ShowsClassified(TextOfRequest)
         /\ h.resp.transcript.some => ShowsClassified(TextOfRequest)

\* Audio beside a blocked transcript: the transcription, which is allowed,
\* is what the response shows.
C34_Witness ==
  /\ GuardAdmitted /\ h.phase = "done"
  /\ Present(h.req.body.audio_base64)
  /\ h.req.body.transcript = Some(TextDiet)
  /\ h.reply.kind = "ok" /\ h.reply.text = Some(TextGas)
  /\ h.resp.status = 200 /\ h.resp.transcript = Some(TextGas)

\* No audio, an allowed transcript and a blocked text: allowed.
C34_WitnessTranscriptFirst ==
  /\ GuardAdmitted /\ h.phase = "done"
  /\ ~Present(h.req.body.audio_base64)
  /\ h.req.body.transcript = Some(TextGas) /\ h.req.body.text = Some(TextDiet)
  /\ h.calls = <<>>
  /\ h.resp.status = 200 /\ h.resp.transcript = Some(TextGas)

\* No audio, no transcript and a blocked text: refused.
C34_WitnessText ==
  /\ GuardAdmitted /\ h.phase = "done"
  /\ ~Present(h.req.body.audio_base64)
  /\ ~h.req.body.transcript.some /\ h.req.body.text = Some(TextDiet)
  /\ h.resp.status = 403 /\ h.resp.blocked

----------------------------------------------------------------------------
(* The text a guarded Session handler checks again (checked under           *)
(* SpecFields).                                                             *)

\* The first of the five text properties the request carries, if any.
FirstPresent(body) ==
  LET carried == {k \in 1..Len(SessionTextFields) : body[SessionTextFields[k]].some}
  IN  IF carried = {} THEN Absent
      ELSE body[SessionTextFields[CHOOSE k \in carried : \A j \in carried : k <= j]]

\* Some property after the first one carried holds a blocked text.
LaterBlocked(v, body) ==
  \E k, j \in 1..Len(SessionTextFields) :
    /\ k < j
    /\ body[SessionTextFields[k]].some
    /\ body[SessionTextFields[j]].some
    /\ isBlockedHealthRequest(ListOf(v), body[SessionTextFields[j]].v)

\* C35: a guarded Session handler answers with the content refusal exactly
\* when the first of user_text, text, prompt, query, transcript that the
\* request carries is a text its classifier blocks; a property after the
\* first one carried is never classified, an empty first one is not
\* classified, and then the guard token alone decides.
C35_FirstPresentFieldRechecked ==
  (h.v \in SessionGuardedVariants /\ h.phase \in {"await", "done"} /\ Admitted) =>
    LET first   == FirstPresent(h.req.body)
        refused == /\ first.some
                   /\ Len(first.v) > 0
                   /\ isBlockedHealthRequest(ListOf(h.v), first.v)
    IN  /\ (h.resp = ContentBlocked) <=> refused
        /\ ~refused =>
             (Called("realtime") <=>
                /\ h.req.body.guard_token.some
                /\ isValidGuardToken(h.req.body.guard_token.v, env.guardSecret, h.at))

\* An empty first property before a blocked one: the session is asked for.
C35_Witness ==
  /\ h.v \in SessionGuardedVariants /\ Called("realtime")
  /\ FirstPresent(h.req.body) = Some(<<>>)
  /\ ~h.req.body.user_text.some
  /\ LaterBlocked(h.v, h.req.body)

\* An allowed user_text before a blocked text: the session is asked for.
C35_WitnessShadowed ==
  /\ h.v \in SessionGuardedVariants /\ Called("realtime")
  /\ h.req.body.user_text = Some(TextGas)
  /\ LaterBlocked(h.v, h.req.body)

\* A blocked query, the first property carried, before an allowed transcript.
C35_WitnessRefused ==
  /\ h.v \in SessionGuardedVariants /\ h.phase = "done"
  /\ h.req.body.query = Some(TextDiet) /\ FirstPresent(h.req.body) = Some(TextDiet)
  /\ h.req.body.transcript = Some(TextGas)
  /\ h.req.body.guard_token.some
  /\ h.resp = ContentBlocked

----------------------------------------------------------------------------
(* The abort timer against the reply (checked under Spec).                  *)

\* The handler in hand armed its abort timer.
TimerArmed == h.timer \in {"armed", "cleared"}

\* C36: a handler that armed its abort timer ends with one response and the
\* timer cleared, whichever of the reply and the timer comes first: the
\* collaborator's result when the reply does, 504 when the timer does; while
\* it waits the timer is armed.
C36_TimerOrReplyOneResponse ==
  TimerArmed =>
    /\ h.phase \in {"await", "done"}
    /\ h.phase = "await" <=> h.timer = "armed"
    /\ (h.phase = "done" /\ h.reply.kind = "abort") => h.resp.status = 504
    /\ (h.phase = "done" /\ h.reply.kind = "status") => h.resp = UpstreamResp(h.reply)
    /\ (h.phase = "done" /\ h.reply.kind = "ok") => h.resp.status \in {200, 400, 403}

----------------------------------------------------------------------------
(* Guard tokens that do not verify, strings or not (checked under           *)
(* SpecFields).                                                             *)

\* The request in hand carries a string that verifies at the second the
\* handler read.
CarriesValidToken ==
  /\ h.req.body.guard_token.some
  /\ isValidGuardToken(h.req.body.guard_token.v, env.guardSecret, h.at)

\* C37: a guarded Session handler, configured and given a body it can parse,
\* answers 403 without a call to the Realtime API whenever the guard_token
\* of the request is not a string that verifies, be it a number, a boolean,
\* an object, an array or null.
C37_InvalidTokenIs403 ==
  (h.v \in SessionGuardedVariants /\ Admitted /\ ~CarriesValidToken) =>
    /\ h.phase = "done"
    /\ h.resp.status = 403
    /\ ~Called("realtime")

----------------------------------------------------------------------------
(* Tokens for requests without content (checked under Spec).                *)

\* The body a Guard handler works on: the edge handlers take a body they
\* cannot parse for no body.
GuardBody == IF h.req.bodyKind = "json" THEN h.req.body ELSE EmptyBody

\* A minting Guard handler has taken up a request with no audio and no text
\* other than white space.
WithoutContent ==
  /\ h.v \in GuardNetlifyVariants \cup GuardEdgeVariants
  /\ InHand /\ Configured
  /\ h.v \in GuardNetlifyVariants => Admitted
  /\ ~Present(GuardBody.audio_base64)
  /\ TextFallback(GuardBody) = <<>>

\* C38: a minting Guard handler answers a request with no audio and no text
\* other than white space without a call, with 200, allowed = true, the empty
\* transcript and a token that verifies for the next 120 seconds; a guarded
\* Session handler opens a session for a request without text that presents
\* such a token in time.
C38_TokenWithoutContent ==
  /\ WithoutContent =>
       /\ h.phase = "done"
       /\ h.calls = <<>>
       /\ h.resp.status = 200 /\ h.resp.allowed /\ ~h.resp.blocked
       /\ h.resp.transcript = Some(<<>>)
       /\ h.resp.guard_token.some
       /\ h.resp.expires_at = h.at + guardTokenTtlSeconds
       /\ isValidGuardToken(h.resp.guard_token.v, env.guardSecret, h.at)
       /\ isValidGuardToken(h.resp.guard_token.v, env.guardSecret, h.resp.expires_at)
  /\ (CheckedHeldToken /\ wallet.transcript = <<>> /\ h.at <= wallet.expires_at)
       => Called("realtime")

\* A session opened, for a request without text, with the token of a Guard
\* request whose transcript was white space.
C38_Witness ==
  /\ CheckedHeldToken /\ Called("realtime")
  /\ wallet.transcript = <<>>
  /\ ~UserText(h.req.body).some

\* The token minted for a transcript of white space.
C38_WitnessMinted ==
  /\ WithoutContent /\ h.phase = "done"
  /\ GuardBody.transcript = Some(TextSpace)
  /\ h.resp.guard_token.some

----------------------------------------------------------------------------
(* What a response takes from the configuration (checked under SpecTwin).   *)

TwinDone == Finished(1) /\ Finished(2)

\* What the client sees of a run, the signature segment of a token left out.
Outcome(st) ==
  [phase |-> st.phase,
   resp  |-> [st.resp EXCEPT !.guard_token =
                IF st.resp.guard_token.some
                THEN Some(Split(st.resp.guard_token.v, 46)[1])
                ELSE Absent]]

\* The guard token of the request of run p verifies under the secret of the
\* run.
TokenAccepted(p) ==
  /\ pair[p].h.req.body.guard_token.some
  /\ isValidGuardToken(pair[p].h.req.body.guard_token.v, pair[p].env.guardSecret,
                       pair[p].h.at)

\* C39: two runs of a request at the same second with the same replies, under
\* two credentials that are both set, end the same way with the same
\* response and the same calls; under two signing secrets they differ at
\* most in the signature segment of the token minted, which is the HMAC of
\* the payload segment under the secret of the run, and in what follows from
\* the guard token of the request verifying under one secret and not the
\* other.
C39_ResponseTakesNoCredential ==
  TwinDone =>
    /\ pair[1].env.guardSecret = pair[2].env.guardSecret =>
         /\ pair[1].h.phase = pair[2].h.phase
         /\ pair[1].h.resp = pair[2].h.resp
         /\ pair[1].h.calls = pair[2].h.calls
    /\ (pair[1].h.v \notin SessionGuardedVariants \/ TokenAccepted(1) = TokenAccepted(2)) =>
         /\ Outcome(pair[1].h) = Outcome(pair[2].h)
         /\ pair[1].h.calls = pair[2].h.calls
    /\ \A p \in Slots :
         pair[p].h.resp.guard_token.some =>
           LET parts == Split(pair[p].h.resp.guard_token.v, 46)
           IN  parts[2] = HmacBase64Url(pair[p].env.guardSecret, parts[1])

\* Two runs whose calls carried different credentials, and which pass the
\* same body of the collaborator on.
C39_Witness ==
  /\ TwinDone
  /\ pair[1].env.guardSecret = pair[2].env.guardSecret
  /\ Len(pair[1].h.auth) > 0 /\ Len(pair[2].h.auth) > 0
  /\ pair[1].h.auth # pair[2].h.auth
  /\ pair[1].h.resp.kind = "upstream"
  /\ pair[1].h.resp = pair[2].h.resp

\* Two runs under different secrets whose tokens differ in the signature
\* segment alone.
C39_WitnessSecret ==
  /\ TwinDone
  /\ pair[1].env.guardSecret # pair[2].env.guardSecret
  /\ pair[1].h.resp.guard_token.some /\ pair[2].h.resp.guard_token.some
  /\ pair[1].h.resp.guard_token # pair[2].h.resp.guard_token
  /\ Outcome(pair[1].h) = Outcome(pair[2].h)

\* Two runs of a Session request whose token verifies under the secret of
\* one run only.
C39_WitnessVerification ==
  /\ TwinDone
  /\ pair[1].h.v \in SessionGuardedVariants
  /\ TokenAccepted(1) /\ ~TokenAccepted(2)
  /\ pair[1].h.resp = SessionCreated /\ pair[2].h.resp = GuardFailed

====
